---------------------------- MODULE Spec2Model ----------------------------
(***************************************************************************)
(* Model of backend/app/services/pdf_link_scraper.py: PDFLinkScraper, the  *)
(* link-discovery and concurrent content-extraction pipeline.              *)
(*                                                                         *)
(* Text is modelled as a sequence of runs.  A run [k, n] stands for n      *)
(* characters of one class:                                                *)
(*   "w"  non-whitespace characters that match no pattern of the cleaner   *)
(*   "s"  whitespace                                                       *)
(*   "b"  one match of a boilerplate pattern of _clean_content             *)
(*   "u"  the prefix http(s):// plus the first characters of a URL         *)
(* The length of a text is the sum of the lengths of its runs.             *)
(***************************************************************************)
EXTENDS Integers, Sequences, FiniteSets, TLC

\* ------------------------------------------------------------------ bounds
MaxUrls == 3
MaxConcurrent == 2
MaxRaw == 3
MaxPages == 2
MaxContainers == 2

\* ------------------------------------------------------- program constants
MinContentLen == 100
MinArticleLen == 200
MaxContentLen == 50000
DefaultTimeout == 15
MinLineLen == 20

\* -------------------------------------------------------------------- text
Run(k, n) == [k |-> k, n |-> n]

RECURSIVE TextLen(_)
TextLen(t) == IF t = <<>> THEN 0 ELSE Head(t).n + TextLen(Tail(t))

\* re.sub(r'\s+', ' ', text): every whitespace run becomes one space.
RECURSIVE CollapseWs(_)
CollapseWs(t) ==
    IF t = <<>> THEN <<>>
    ELSE IF Head(t).k = "s"
         THEN LET rest == CollapseWs(Tail(t))
              IN  IF rest # <<>> /\ Head(rest).k = "s"
                  THEN rest
                  ELSE <<Run("s", 1)>> \o rest
         ELSE <<Head(t)>> \o CollapseWs(Tail(t))

\* The loop over the boilerplate patterns: every match is deleted.
RemoveBoilerplate(t) == SelectSeq(t, LAMBDA r : r.k # "b")

\* re.sub(r'https?://\S+', '', text): the match runs from the scheme to the
\* next whitespace, so it swallows the non-whitespace runs that follow it.
RECURSIVE RemoveUrlsFrom(_, _)
RemoveUrlsFrom(t, inUrl) ==
    IF t = <<>> THEN <<>>
    ELSE LET r == Head(t)
         IN  IF r.k = "s" THEN <<r>> \o RemoveUrlsFrom(Tail(t), FALSE)
             ELSE IF r.k = "u" \/ inUrl THEN RemoveUrlsFrom(Tail(t), TRUE)
             ELSE <<r>> \o RemoveUrlsFrom(Tail(t), FALSE)

RemoveUrls(t) == RemoveUrlsFrom(t, FALSE)

\* str.strip()
RECURSIVE LStrip(_)
LStrip(t) == IF t # <<>> /\ Head(t).k = "s" THEN LStrip(Tail(t)) ELSE t

RECURSIVE RStrip(_)
RStrip(t) ==
    IF t # <<>> /\ t[Len(t)].k = "s" THEN RStrip(SubSeq(t, 1, Len(t) - 1)) ELSE t

Strip(t) == RStrip(LStrip(t))

\* A cleaning pass that keeps the whole text.
TruncateNothing(t, limit) == t

\* text[:limit]
RECURSIVE Truncate(_, _)
Truncate(t, limit) ==
    IF t = <<>> \/ limit <= 0 THEN <<>>
    ELSE IF Head(t).n <= limit
         THEN <<Head(t)>> \o Truncate(Tail(t), limit - Head(t).n)
         ELSE <<Run(Head(t).k, limit)>>

\* len(text.split()): the number of maximal non-whitespace stretches.
RECURSIVE WordCountFrom(_, _)
WordCountFrom(t, inWord) ==
    IF t = <<>> THEN 0
    ELSE IF Head(t).k = "s" THEN WordCountFrom(Tail(t), FALSE)
         ELSE (IF inWord THEN 0 ELSE 1) + WordCountFrom(Tail(t), TRUE)

WordCount(t) == WordCountFrom(t, FALSE)

\* PDFLinkScraper._clean_content
CleanContent(text) ==
    IF text = <<>> THEN <<>>
    ELSE LET t1 == CollapseWs(text)
             t2 == RemoveBoilerplate(t1)
             t3 == RemoveUrls(t2)
             t4 == Strip(CollapseWs(t3))
         IN  IF TextLen(t4) > MaxContentLen THEN Truncate(t4, MaxContentLen) ELSE t4


\* ------------------------------------------------------------- exceptions
\* An exception is its class and its text, str(e).  asyncio.TimeoutError is
\* the class "TimeoutError"; every class below derives from Exception.
Exc(type, text) == [type |-> type, text |-> text]
NoExc == Exc("", "")

\* httpx.Response.raise_for_status: the text of the HTTPStatusError names the
\* status code.
StatusErrorText(status) ==
    (IF status < 200 THEN "Informational response '"
     ELSE IF status < 400 THEN "Redirect response '"
     ELSE IF status < 500 THEN "Client error '"
     ELSE "Server error '") \o ToString(status) \o "' for url"

\* ------------------------------------------------------------------- html
\* What the two extraction libraries make of a response body:
\*   empty       response.text is ''
\*   npRaises    newspaper's Article.parse raises
\*   npTitle, npText     article.title, article.text
\*   bsRaises    BeautifulSoup(html, 'lxml') raises
\*   hasTitleTag, bsTitle    soup.find('title') and its text
\*   containers  the texts of the elements found by the content selectors,
\*               in the order of the selector list
\*   hasBody, body   soup.find('body') and its text
Html(e, nr, nt, nx, br, ht, bt, cs, hb, bd) ==
    [empty |-> e, npRaises |-> nr, npTitle |-> nt, npText |-> nx,
     bsRaises |-> br, hasTitleTag |-> ht, bsTitle |-> bt, containers |-> cs,
     hasBody |-> hb, body |-> bd]

EmptyHtml == Html(TRUE, FALSE, "", <<>>, FALSE, FALSE, "", <<>>, FALSE, <<>>)

\* The loop over content_selectors: content is the text of each container
\* found, in turn, until one is longer than 200 characters.
RECURSIVE SelectContainer(_, _)
SelectContainer(cs, content) ==
    IF cs = <<>> THEN content
    ELSE IF TextLen(Head(cs)) > MinArticleLen THEN Head(cs)
         ELSE SelectContainer(Tail(cs), Head(cs))

\* The BeautifulSoup fallback of _extract_article_content, entered with the
\* title and content the first strategy left behind.
ExtractWithSoup(html, title, content) ==
    IF html.bsRaises THEN <<title, content>>
    ELSE LET t == IF html.hasTitleTag THEN html.bsTitle ELSE title
             c == SelectContainer(html.containers, content)
         IN  IF (c = <<>> \/ TextLen(c) < MinArticleLen) /\ html.hasBody
             THEN <<t, html.body>>
             ELSE <<t, c>>

\* PDFLinkScraper._extract_article_content: <<title, content>>
ExtractArticleContent(html) ==
    IF html.npRaises THEN ExtractWithSoup(html, "", <<>>)
    ELSE IF html.npText # <<>> /\ TextLen(html.npText) > MinArticleLen
         THEN <<html.npTitle, html.npText>>
         ELSE ExtractWithSoup(html, html.npTitle, html.npText)

\* The same function with its exceptions made explicit.  A try block ends
\* with what it left in title and content, and says whether it raised and
\* whether it executed "return title, content".
Block(raised, returned, title, content) ==
    [raised |-> raised, returned |-> returned, title |-> title,
     content |-> content]

\* The first try block: Article(url), set_html, parse, then the test of the
\* content length.  An exception of parse leaves title and content as '' .
TryNewspaper(html) ==
    IF html.npRaises THEN Block(TRUE, FALSE, "", <<>>)
    ELSE Block(FALSE,
               html.npText # <<>> /\ TextLen(html.npText) > MinArticleLen,
               html.npTitle, html.npText)

\* The second try block, entered with title and content of the first: an
\* exception of BeautifulSoup(html, 'lxml') leaves them as they are.
TrySoup(html, title, content) ==
    IF html.bsRaises THEN Block(TRUE, FALSE, title, content)
    ELSE LET tc == ExtractWithSoup(html, title, content)
         IN  Block(FALSE, FALSE, tc[1], tc[2])

\* A try block without an except clause: the exception leaves the function.
Unhandled(block) == block

\* "except Exception as e: logger...": the exception is logged and the
\* function goes on after the try statement.
Handled(block) == [block EXCEPT !.raised = FALSE]

\* _extract_article_content as its two try statements in sequence, ending
\* with "return title, content" at line 421.
ExtractArticleOutcome(html) ==
    LET first == Handled(TryNewspaper(html))
    IN  IF first.raised \/ first.returned THEN first
        ELSE LET second == Handled(TrySoup(html, first.title, first.content))
             IN  [second EXCEPT !.returned = ~second.raised]

\* ------------------------------------------------------------------ fetch
\* What the network does with one GET: a response (status, body), or the
\* transport raising.  crashAt names a later stage of the unit in which an
\* unexpected exception (exc) is raised, "none" for no such exception.
NetEvent(kind, status, html, exc, crashAt, ms) ==
    [kind |-> kind, status |-> status, html |-> html, exc |-> exc,
     crashAt |-> crashAt, ms |-> ms]

\* PDFLinkScraper._fetch_webpage: response.text, or the exception raised by
\* client.get or by raise_for_status.
FetchWebpage(ev) ==
    IF ev.kind = "raise"
    THEN [raised |-> TRUE, exc |-> ev.exc, html |-> EmptyHtml]
    ELSE IF ev.status >= 200 /\ ev.status <= 299
         THEN [raised |-> FALSE, exc |-> NoExc, html |-> ev.html]
         ELSE [raised |-> TRUE,
               exc |-> Exc("httpx.HTTPStatusError", StatusErrorText(ev.status)),
               html |-> EmptyHtml]

\* ------------------------------------------------------------ ScrapedPage
ScrapedPage(url, success, title, content, word_count, error_message, ms) ==
    [url |-> url, success |-> success, title |-> title, content |-> content,
     word_count |-> word_count, error_message |-> error_message,
     scrape_time_ms |-> ms]

FailedPage(url, error_message) ==
    ScrapedPage(url, FALSE, "", <<>>, 0, error_message, 0)

TimeoutMessage(timeout) == "Timeout after " \o ToString(timeout) \o "s"

\* Except clauses that drop the text of the exception.
HandleExceptionNoText(url, e, timeout) ==
    IF e.type = "TimeoutError"
    THEN FailedPage(url, TimeoutMessage(timeout))
    ELSE FailedPage(url, "")

\* The two except clauses of _scrape_single_url.
HandleException(url, e, timeout) ==
    IF e.type = "TimeoutError"
    THEN FailedPage(url, TimeoutMessage(timeout))
    ELSE FailedPage(url, e.text)

\* The unit's outcome: the page it returns, and which stages it invoked.
Unit(page, extracted, cleaned) ==
    [page |-> page, extracted |-> extracted, cleaned |-> cleaned]

\* The acceptance test of _scrape_single_url on the extractor's content.
Insufficient(content) == content = <<>> \/ TextLen(content) < MinContentLen

\* Steps 2 and 3 of _scrape_single_url, after a non-empty body was fetched.
ExtractAndClean(url, ev, html, timeout) ==
    IF ev.crashAt = "extract"
    THEN Unit(HandleException(url, ev.exc, timeout), TRUE, FALSE)
    ELSE LET tc == ExtractArticleContent(html)
         IN  IF Insufficient(tc[2])
             THEN Unit(FailedPage(url,
                         "Could not extract sufficient content from page"),
                       TRUE, FALSE)
             ELSE IF ev.crashAt = "clean"
             THEN Unit(HandleException(url, ev.exc, timeout), TRUE, TRUE)
             ELSE LET content == CleanContent(tc[2])
                  IN  Unit(ScrapedPage(url, TRUE, tc[1], content,
                                       WordCount(content), "", ev.ms),
                           TRUE, TRUE)

\* _scrape_single_url without the test for an empty body.
ScrapeSingleUrlNoEmptyCheck(url, ev, timeout) ==
    LET f == FetchWebpage(ev)
    IN  IF f.raised
        THEN Unit(HandleException(url, f.exc, timeout), FALSE, FALSE)
        ELSE ExtractAndClean(url, ev, f.html, timeout)

\* PDFLinkScraper._scrape_single_url
ScrapeSingleUrl(url, ev, timeout) ==
    LET f == FetchWebpage(ev)
    IN  IF f.raised
        THEN Unit(HandleException(url, f.exc, timeout), FALSE, FALSE)
        ELSE IF f.html.empty
        THEN Unit(FailedPage(url, "Empty response from server"), FALSE, FALSE)
        ELSE ExtractAndClean(url, ev, f.html, timeout)


\* ---------------------------------------------------------------- strings
\* A Python str is the sequence of its characters, each a one-character
\* string.
Lowercase == {"a","b","c","d","e","f","g","h","i","j","k","l","m","n","o","p",
    "q","r","s","t","u","v","w","x","y","z"}

Uppercase == {"A","B","C","D","E","F","G","H","I","J","K","L","M","N","O","P",
    "Q","R","S","T","U","V","W","X","Y","Z"}

Digits == {"0","1","2","3","4","5","6","7","8","9"}

LowerSeq == <<"a","b","c","d","e","f","g","h","i","j","k","l","m","n","o","p",
    "q","r","s","t","u","v","w","x","y","z">>

UpperSeq == <<"A","B","C","D","E","F","G","H","I","J","K","L","M","N","O","P",
    "Q","R","S","T","U","V","W","X","Y","Z">>

Http == <<"h","t","t","p">>

Https == <<"h","t","t","p","s">>

Ftp == <<"f","t","p">>

SchemeSep == <<":","/","/">>

Www == <<"w","w","w",".">>

SKIP_DOMAINS ==
    { <<"f","a","c","e","b","o","o","k",".","c","o","m">>,
      <<"t","w","i","t","t","e","r",".","c","o","m">>,
      <<"i","n","s","t","a","g","r","a","m",".","c","o","m">>,
      <<"l","i","n","k","e","d","i","n",".","c","o","m">>,
      <<"y","o","u","t","u","b","e",".","c","o","m">>,
      <<"t","i","k","t","o","k",".","c","o","m">>,
      <<"p","i","n","t","e","r","e","s","t",".","c","o","m">>,
      <<"r","e","d","d","i","t",".","c","o","m">>,
      <<"f","o","n","t","s",".","g","o","o","g","l","e","a","p","i","s",".",
        "c","o","m">>,
      <<"f","o","n","t","s",".","g","s","t","a","t","i","c",".","c","o","m">>,
      <<"d","o","u","b","l","e","c","l","i","c","k",".","n","e","t">>,
      <<"g","o","o","g","l","e","a","d","s","e","r","v","i","c","e","s",".",
        "c","o","m">>,
      <<"g","o","o","g","l","e","s","y","n","d","i","c","a","t","i","o","n",
        ".","c","o","m">> }

SKIP_EXTENSIONS ==
    { <<".","j","p","g">>,
      <<".","j","p","e","g">>,
      <<".","p","n","g">>,
      <<".","g","i","f">>,
      <<".","s","v","g">>,
      <<".","w","e","b","p">>,
      <<".","i","c","o">>,
      <<".","c","s","s">>,
      <<".","j","s">>,
      <<".","w","o","f","f">>,
      <<".","w","o","f","f","2">>,
      <<".","t","t","f">>,
      <<".","e","o","t">>,
      <<".","p","d","f">>,
      <<".","z","i","p">>,
      <<".","r","a","r">>,
      <<".","e","x","e">>,
      <<".","d","m","g">>,
      <<".","m","p","3">>,
      <<".","m","p","4">> }

Letters == Lowercase \cup Uppercase

\* \s of the regular expressions and the characters str.strip() removes.
Whitespace == {" ", "\t", "\n", "\r"}

\* \w of the regular expressions.
WordChars == Letters \cup Digits \cup {"_"}

LowerChar(c) ==
    IF c \in Uppercase THEN LowerSeq[CHOOSE k \in 1..26 : UpperSeq[k] = c]
    ELSE c

\* str.lower
StrLower(s) == [k \in 1..Len(s) |-> LowerChar(s[k])]

\* str.lstrip(cs), str.rstrip(cs)
RECURSIVE LStripChars(_, _)
LStripChars(s, cs) ==
    IF s # <<>> /\ Head(s) \in cs THEN LStripChars(Tail(s), cs) ELSE s

RECURSIVE RStripChars(_, _)
RStripChars(s, cs) ==
    IF s # <<>> /\ s[Len(s)] \in cs
    THEN RStripChars(SubSeq(s, 1, Len(s) - 1), cs)
    ELSE s

\* str.strip()
StrStrip(s) == RStripChars(LStripChars(s, Whitespace), Whitespace)

\* s with every character of cs removed: a chain of str.replace(c, '').
RemoveChars(s, cs) == SelectSeq(s, LAMBDA c : c \notin cs)

\* str.startswith, str.endswith, "p in s"
StartsWith(s, p) == Len(s) >= Len(p) /\ SubSeq(s, 1, Len(p)) = p

EndsWith(s, p) ==
    Len(s) >= Len(p) /\ SubSeq(s, Len(s) - Len(p) + 1, Len(s)) = p

Contains(s, p) ==
    \E k \in 0..(Len(s) - Len(p)) : SubSeq(s, k + 1, k + Len(p)) = p

\* The first index from `from` on at which s holds a character of cs, 0 if
\* there is none (str.find, counted from 1).
FindFrom(s, cs, from) ==
    LET hits == {k \in from..Len(s) : s[k] \in cs}
    IN  IF hits = {} THEN 0 ELSE CHOOSE k \in hits : \A j \in hits : k <= j

\* The first index from `from` on at which s holds a character outside cs,
\* 0 if there is none.
FindNotIn(s, cs, from) ==
    LET hits == {k \in from..Len(s) : s[k] \notin cs}
    IN  IF hits = {} THEN 0 ELSE CHOOSE k \in hits : \A j \in hits : k <= j

\* The last index at which s holds a character of cs, 0 if there is none
\* (str.rfind, counted from 1).
FindLast(s, cs) ==
    LET hits == {k \in 1..Len(s) : s[k] \in cs}
    IN  IF hits = {} THEN 0 ELSE CHOOSE k \in hits : \A j \in hits : k >= j

\* ------------------------------------------------------------------- URLs
\* The trailing punctuation _clean_url removes: '.,;:)\'"}>'
TrailingPunctuation == {".", ",", ";", ":", ")", "'", "\"", "}", ">"}

\* PDFLinkScraper._clean_url
CleanUrl(url) ==
    IF url = <<>> THEN <<>>
    ELSE RStripChars(StrStrip(url), TrailingPunctuation)

\* urllib.parse: the characters of a scheme, and the schemes whose last path
\* segment carries ";parameters" ('' and the schemes of the sample URLs).
SchemeChars == Letters \cup Digits \cup {"+", "-", "."}

UsesParams == {<<>>, Http, Https, Ftp}

\* str.split(c, 1): the part of s before the first c (all of s if there is
\* none) and the part behind it.
Before(s, c) ==
    LET i == FindFrom(s, {c}, 1) IN IF i = 0 THEN s ELSE SubSeq(s, 1, i - 1)

After(s, c) ==
    LET i == FindFrom(s, {c}, 1)
    IN  IF i = 0 THEN <<>> ELSE SubSeq(s, i + 1, Len(s))

\* urlsplit removes leading blanks and every tab and line break.
RemoveUnsafe(url) ==
    RemoveChars(LStripChars(url, Whitespace), {"\t", "\r", "\n"})

\* urlsplit, the scheme: the index of the ":" behind it, 0 if the characters
\* before the first ":" are not a scheme.
SchemeEnd(u) ==
    LET i == FindFrom(u, {":"}, 1)
    IN  IF /\ i > 1
           /\ u[1] \in Letters
           /\ \A k \in 1..(i - 1) : u[k] \in SchemeChars
        THEN i
        ELSE 0

SchemeOf(u) ==
    LET i == SchemeEnd(u)
    IN  IF i = 0 THEN <<>> ELSE StrLower(SubSeq(u, 1, i - 1))

AfterScheme(u) ==
    LET i == SchemeEnd(u) IN IF i = 0 THEN u ELSE SubSeq(u, i + 1, Len(u))

\* urlsplit, the netloc of the text v behind the scheme: if v begins with
\* "//", what stands between it and the first of "/", "?", "#".
HasNetloc(v) == StartsWith(v, <<"/", "/">>)

NetlocEnd(v) ==
    LET d == FindFrom(v, {"/", "?", "#"}, 3)
    IN  IF d = 0 THEN Len(v) ELSE d - 1

NetlocOf(v) == IF HasNetloc(v) THEN SubSeq(v, 3, NetlocEnd(v)) ELSE <<>>

AfterNetloc(v) ==
    IF HasNetloc(v) THEN SubSeq(v, NetlocEnd(v) + 1, Len(v)) ELSE v

\* urlsplit raises ValueError("Invalid IPv6 URL") for a netloc with one
\* bracket and not the other.
InvalidNetloc(netloc) ==
    (FindFrom(netloc, {"["}, 1) # 0) # (FindFrom(netloc, {"]"}, 1) # 0)

\* urlparse's _splitparams: the index of the first ";" of the last segment
\* of path, 0 if there is none.
ParamsAt(path) ==
    LET slash == FindLast(path, {"/"})
    IN  FindFrom(path, {";"}, IF slash = 0 THEN 1 ELSE slash)

\* urlparse: the path p without its parameters, and the parameters, for a
\* scheme that has them (uses).
PathOf(p, uses) ==
    LET i == ParamsAt(p)
    IN  IF uses /\ i # 0 THEN SubSeq(p, 1, i - 1) ELSE p

ParamsOf(p, uses) ==
    LET i == ParamsAt(p)
    IN  IF uses /\ i # 0 THEN SubSeq(p, i + 1, Len(p)) ELSE <<>>

\* The parts of a URL whose text behind scheme and netloc is w.
UrlParts(scheme, netloc, w) ==
    [raises   |-> InvalidNetloc(netloc),
     scheme   |-> scheme,
     netloc   |-> netloc,
     path     |-> PathOf(Before(Before(w, "#"), "?"), scheme \in UsesParams),
     params   |-> ParamsOf(Before(Before(w, "#"), "?"), scheme \in UsesParams),
     query    |-> After(Before(w, "#"), "?"),
     fragment |-> After(w, "#")]

\* urllib.parse.urlparse (CPython 3.11): scheme, netloc, path, params, query
\* and fragment of url, or ValueError.
UrlParse(url) ==
    LET v == AfterScheme(RemoveUnsafe(url))
    IN  UrlParts(SchemeOf(RemoveUnsafe(url)), NetlocOf(v), AfterNetloc(v))

\* ----------------------------------------------------------------- filter
\* A test that lets every scheme pass.
ValidSchemeAny(parsed) == parsed.scheme # <<>>

\* The domain test on the netloc as it is written.
SkipDomainCaseSensitive(parsed) ==
    \E skip \in SKIP_DOMAINS : Contains(parsed.netloc, skip)

\* The extension test on the path as it is written.
SkipExtensionCaseSensitive(parsed) ==
    \E ext \in SKIP_EXTENSIONS : EndsWith(parsed.path, ext)

\* A key that keeps letter case and trailing slashes.
NormalizedKeyAsWritten(parsed) == parsed.netloc \o parsed.path

\* A filter that hands on the normalized key instead of the URL.
KeptNormalized(url, parsed) ==
    Http \o SchemeSep \o RStripChars(StrLower(parsed.netloc \o parsed.path), {"/"})

\* A key that tells http from https.
NormalizedKeyWithScheme(parsed) ==
    RStripChars(StrLower(parsed.scheme \o parsed.netloc \o parsed.path), {"/"})

\* "if parsed.scheme not in ('http', 'https'): continue"
ValidScheme(parsed) == parsed.scheme \in {Http, Https}

\* "if any(skip in domain for skip in self.SKIP_DOMAINS)" on the
\* lower-cased netloc.
SkipDomain(parsed) ==
    \E skip \in SKIP_DOMAINS : Contains(StrLower(parsed.netloc), skip)

\* "if any(path.endswith(ext) for ext in self.SKIP_EXTENSIONS)" on the
\* lower-cased path.
SkipExtension(parsed) ==
    \E ext \in SKIP_EXTENSIONS : EndsWith(StrLower(parsed.path), ext)

\* normalized = f"{parsed.netloc}{parsed.path}".lower().rstrip('/')
NormalizedKey(parsed) ==
    RStripChars(StrLower(parsed.netloc \o parsed.path), {"/"})

\* The string appended to valid_urls: the cleaned URL.
Kept(url, parsed) == url

\* The filter loop of _extract_urls_from_pdf over the raw URLs in iteration
\* order, from the state (seen, valid_urls) on.  A URL for which urlparse
\* raises is skipped by "except Exception: continue".
RECURSIVE FilterFrom(_, _, _)
FilterFrom(raw, seen, valid_urls) ==
    IF raw = <<>> THEN valid_urls
    ELSE LET url == CleanUrl(Head(raw))
             parsed == UrlParse(url)
         IN  IF \/ url = <<>>
                \/ parsed.raises
                \/ ~ValidScheme(parsed)
                \/ parsed.netloc = <<>>
                \/ SkipDomain(parsed)
                \/ SkipExtension(parsed)
                \/ NormalizedKey(parsed) \in seen
             THEN FilterFrom(Tail(raw), seen, valid_urls)
             ELSE FilterFrom(Tail(raw), seen \cup {NormalizedKey(parsed)},
                             Append(valid_urls, Kept(url, parsed)))

\* The filter of _extract_urls_from_pdf: "Filter and validate URLs".
FilterUrls(raw) == FilterFrom(raw, {}, <<>>)

\* -------------------------------------------------------------- discovery
\* The characters that end a match of URL_PATTERN and WWW_PATTERN:
\* [^\s\)\]\>\"\'\,]
Terminators == Whitespace \cup {")", "]", ">", "\"", "'", ","}

\* [-\w.] and [-\w]
HostChars == WordChars \cup {"-", "."}

LabelChars == WordChars \cup {"-"}

HexDigits ==
    Digits \cup {"a", "b", "c", "d", "e", "f", "A", "B", "C", "D", "E", "F"}

\* re.sub(r'-\n', '', text)
RECURSIVE RemoveHyphenBreaks(_)
RemoveHyphenBreaks(s) ==
    IF s = <<>> THEN <<>>
    ELSE IF Len(s) >= 2 /\ s[1] = "-" /\ s[2] = "\n"
         THEN RemoveHyphenBreaks(SubSeq(s, 3, Len(s)))
         ELSE <<Head(s)>> \o RemoveHyphenBreaks(Tail(s))

\* The length of the run of characters outside cs with which s begins.
RunLen(s, cs) ==
    LET stop == FindFrom(s, cs, 1) IN IF stop = 0 THEN Len(s) ELSE stop - 1

\* re.sub(r'(\S+)\n(\S+)', r'\1\2', text): from left to right, a word, one
\* line break and the word after it become one word; the search goes on
\* behind the second word.
RECURSIVE JoinSplitWords(_)
JoinSplitWords(s) ==
    IF s = <<>> THEN <<>>
    ELSE IF Head(s) \in Whitespace
    THEN <<Head(s)>> \o JoinSplitWords(Tail(s))
    ELSE LET n == RunLen(s, Whitespace)
             rest == SubSeq(s, n + 2, Len(s))
         IN  IF n + 2 <= Len(s) /\ s[n + 1] = "\n" /\ s[n + 2] \notin Whitespace
             THEN LET m == RunLen(rest, Whitespace)
                  IN  SubSeq(s, 1, n) \o SubSeq(rest, 1, m)
                        \o JoinSplitWords(SubSeq(rest, m + 1, Len(rest)))
             ELSE SubSeq(s, 1, n) \o JoinSplitWords(SubSeq(s, n + 1, Len(s)))

\* The two substitutions of _extract_urls_from_pdf on a page's text.
RejoinLines(text) == JoinSplitWords(RemoveHyphenBreaks(text))

\* The index up to which a match ends that has reached index k: the match
\* takes every character up to the next terminator.
MatchEnd(s, k) ==
    LET stop == FindFrom(s, Terminators, k)
    IN  IF stop = 0 THEN Len(s) ELSE stop - 1

\* (?:[-\w.]|(?:%[\da-fA-F]{2})) at index k of s
HostStart(s, k) ==
    /\ k <= Len(s)
    /\ \/ s[k] \in HostChars
       \/ /\ s[k] = "%"
          /\ k + 2 <= Len(s)
          /\ s[k + 1] \in HexDigits
          /\ s[k + 2] \in HexDigits

\* The match of URL_PATTERN that starts at index k of s: the index of its
\* last character, 0 for no match.  The pattern ignores case.
UrlPatternMatch(s, k) ==
    LET low == StrLower(SubSeq(s, k, IF k + 7 <= Len(s) THEN k + 7 ELSE Len(s)))
        h == IF StartsWith(low, Https \o SchemeSep) THEN k + 8
             ELSE IF StartsWith(low, Http \o SchemeSep) THEN k + 7
             ELSE 0
    IN  IF h # 0 /\ HostStart(s, h) THEN MatchEnd(s, h) ELSE 0

\* The match of WWW_PATTERN that starts at index k of s: "www.", a run of
\* [-\w.] that holds, behind its first character, a dot followed by [-\w],
\* and every character up to the next terminator.
WwwPatternMatch(s, k) ==
    LET low == StrLower(SubSeq(s, k, IF k + 3 <= Len(s) THEN k + 3 ELSE Len(s)))
        stop == FindNotIn(s, HostChars, k + 4)
        last == IF stop = 0 THEN Len(s) ELSE stop - 1
    IN  IF /\ low = Www
           /\ \E j \in (k + 5)..(last - 1) :
                 s[j] = "." /\ s[j + 1] \in LabelChars
        THEN MatchEnd(s, k + 4)
        ELSE 0

\* URL_PATTERN.findall(s) from index k on: the matches from left to right,
\* none overlapping another.
RECURSIVE UrlPatternFindall(_, _)
UrlPatternFindall(s, k) ==
    IF k > Len(s) THEN <<>>
    ELSE LET e == UrlPatternMatch(s, k)
         IN  IF e = 0 THEN UrlPatternFindall(s, k + 1)
             ELSE <<SubSeq(s, k, e)>> \o UrlPatternFindall(s, e + 1)

\* WWW_PATTERN.findall(s) from index k on.
RECURSIVE WwwPatternFindall(_, _)
WwwPatternFindall(s, k) ==
    IF k > Len(s) THEN <<>>
    ELSE LET e == WwwPatternMatch(s, k)
         IN  IF e = 0 THEN WwwPatternFindall(s, k + 1)
             ELSE <<SubSeq(s, k, e)>> \o WwwPatternFindall(s, e + 1)

\* The members of sequence q.
Range(q) == {q[k] : k \in DOMAIN q}

\* A page of the PDF as the two backends see it: the URIs of its link
\* annotations and its text layer.
Page(annots, text) == [annots |-> annots, text |-> text]

\* Where a backend raises: at "none", at "open" (the document as a whole),
\* or on page `page` while reading its "annots" or its "text".
Failure(at, page) == [at |-> at, page |-> page]

NoFailure == Failure("none", 0)

Pdf(pages, primary, secondary) ==
    [pages |-> pages, primary |-> primary, secondary |-> secondary]

\* "clean_uri = uri.strip().replace('\n', '').replace('\r', '').replace(' ', '')"
\* for every annotation with a non-empty uri.
AnnotationLinks(page) ==
    {RemoveChars(StrStrip(uri), {"\n", "\r", " "}) :
        uri \in {a \in Range(page.annots) : a # <<>>}}

\* The URLs the two patterns find in the rejoined text of a page; a www
\* match gets the prefix https:// unless it starts with http.
TextLinks(page) ==
    LET text_joined == RejoinLines(page.text)
    IN  Range(UrlPatternFindall(text_joined, 1)) \cup
        {IF StartsWith(url, Http) THEN url ELSE Https \o SchemeSep \o url :
            url \in Range(WwwPatternFindall(text_joined, 1))}

\* A pdfplumber block in which the text patterns are consulted only for a
\* document without a link annotation.
PrimaryLinksEither(pdf) ==
    LET f == pdf.primary
        full == IF f.at = "none" THEN DOMAIN pdf.pages
                ELSE IF f.at = "open" THEN {}
                ELSE 1..(f.page - 1)
        annotsOnly == IF f.at = "text" THEN {f.page} ELSE {}
        annotated == UNION {AnnotationLinks(pdf.pages[k]) :
                               k \in full \cup annotsOnly}
    IN  IF annotated # {} THEN annotated
        ELSE UNION {TextLinks(pdf.pages[k]) : k \in full}

\* What the pdfplumber block adds to urls before it ends or raises: the
\* pages before the failing one in full, and the annotations of the page
\* whose text could not be read.
PrimaryLinks(pdf) ==
    LET f == pdf.primary
        full == IF f.at = "none" THEN DOMAIN pdf.pages
                ELSE IF f.at = "open" THEN {}
                ELSE 1..(f.page - 1)
        annotsOnly == IF f.at = "text" THEN {f.page} ELSE {}
    IN  UNION {AnnotationLinks(pdf.pages[k]) \cup TextLinks(pdf.pages[k]) :
                  k \in full}
        \cup UNION {AnnotationLinks(pdf.pages[k]) : k \in annotsOnly}

\* What the PyPDF2 fallback adds before it ends or raises:
\* "urls.add(str(uri).strip())" for every link annotation with a uri.
SecondaryLinks(pdf) ==
    LET f == pdf.secondary
        full == IF f.at = "none" THEN DOMAIN pdf.pages
                ELSE IF f.at = "open" THEN {}
                ELSE 1..(f.page - 1)
        uris(k) == {a \in Range(pdf.pages[k].annots) : a # <<>>}
    IN  UNION {{StrStrip(uri) : uri \in uris(k)} : k \in full}

\* The set urls of _extract_urls_from_pdf when the filter begins.  The
\* fallback runs only if the pdfplumber block raised, and adds to what that
\* block had collected.
DiscoveredUrls(pdf) ==
    IF pdf.primary.at = "none" THEN PrimaryLinks(pdf)
    ELSE PrimaryLinks(pdf) \cup SecondaryLinks(pdf)

\* ------------------------------------------------------------------ state
VARIABLES
    pdf,             \* pdf_content, as the two backends see it
    discovered,      \* the set urls of _extract_urls_from_pdf before the filter
    rawOrder,        \* the order in which the filter loop meets that set
    urls,            \* the filtered candidate list handed to _scrape_all_urls
    max_concurrent,  \* self.max_concurrent
    timeout,         \* self.timeout
    mainpc,          \* where extract_and_scrape is
    sem_value,       \* asyncio.Semaphore._value
    waiters,         \* asyncio.Semaphore._waiters, oldest first
    woken,           \* the waiters whose future is done, in the order they were woken
    pc,              \* per task: "created", "waiting", "fetching", "done"
    nextStart,       \* the task whose first step the event loop runs next
    taskResult,      \* per task: what the task returned or raised
    pages,           \* scraped_pages, the list extract_and_scrape returns
    event,           \* per task: the network event its fetch met
    fetchStarts,     \* per task: how often _fetch_webpage was entered
    doneCount,       \* per task: how often the task finished
    startOrder,      \* the tasks in the order their fetches started
    doneOrder,       \* the tasks in the order they finished
    response         \* what the endpoint /extract/pdf-links answers

discovery == <<pdf, discovered, rawOrder>>

vars == <<discovery, urls, max_concurrent, timeout, mainpc, sem_value, waiters, woken, pc,
          nextStart, taskResult, pages, event, fetchStarts, doneCount,
          startOrder, doneOrder, response>>

Tasks == DOMAIN pc

\* ----------------------------------------------------------------- inputs
\* Candidate URLs are told apart by a number: the filter's output holds no
\* URL twice.  The lists are those in ascending and in descending order; the
\* pipeline never compares two URLs, so the other orders behave alike.
Urls == 1..MaxUrls

Monotone(q) ==
    \/ \A i, j \in DOMAIN q : i < j => q[i] < q[j]
    \/ \A i, j \in DOMAIN q : i < j => q[i] > q[j]

CandidateLists ==
    UNION {{q \in [1..n -> Urls] : Monotone(q)} : n \in 0..MaxUrls}

ConcurrencyLevels == (0 - 1)..MaxConcurrent

NoBody(title, text) ==
    Html(FALSE, FALSE, title, text, FALSE, FALSE, "", <<>>, FALSE, <<>>)

BodyOnly(text) ==
    Html(FALSE, TRUE, "", <<>>, FALSE, TRUE, "Title", <<>>, TRUE, text)

Response(status, html) == NetEvent("response", status, html, NoExc, "none", 7)

Raises(e) == NetEvent("raise", 0, EmptyHtml, e, "none", 0)

NoEvent == NetEvent("none", 0, EmptyHtml, NoExc, "none", 0)

\* The network events of the batch runs: an article, a page whose text is
\* mostly boilerplate, a short page, an empty body, an error status, a
\* transport timeout, asyncio.TimeoutError, and a crash in the extraction
\* and in the cleaning stage.
SampleEvents ==
    { Response(200, NoBody("Article", <<Run("w", 120), Run("s", 2), Run("w", 130)>>)),
      Response(200, BodyOnly(<<Run("w", 80), Run("s", 1), Run("b", 13),
                               Run("s", 1), Run("u", 25)>>)),
      Response(200, BodyOnly(<<Run("w", 80)>>)),
      Response(200, EmptyHtml),
      Response(500, EmptyHtml),
      Raises(Exc("httpx.ReadTimeout", "")),
      Raises(Exc("TimeoutError", "")),
      NetEvent("response", 200, BodyOnly(<<Run("w", 150)>>),
               Exc("RecursionError", "maximum recursion depth exceeded"),
               "extract", 0),
      NetEvent("response", 200, BodyOnly(<<Run("w", 150)>>),
               Exc("MemoryError", "out of memory"), "clean", 0) }

\* The raw URLs of the filter runs: four spellings of one address, a URL in
\* whitespace and punctuation, and one URL for each way the filter discards.
\* 'http://x.com/a'
UrlA == <<"h","t","t","p",":","/","/","x",".","c","o","m","/","a">>

\* 'http://x.com/a/'
UrlASlash == <<"h","t","t","p",":","/","/","x",".","c","o","m","/","a","/">>

\* 'HTTP://X.com/A'
UrlAUpper == <<"H","T","T","P",":","/","/","X",".","c","o","m","/","A">>

\* 'https://x.com/a?q=1'
UrlAQuery ==
    <<"h","t","t","p","s",":","/","/","x",".","c","o","m","/","a","?","q",
    "=","1">>

\* ' http://x.com/b.) '
UrlBDot ==
    <<" ","h","t","t","p",":","/","/","x",".","c","o","m","/","b",".",")"," ">>

\* 'ftp://x.com/a'
UrlFtp == <<"f","t","p",":","/","/","x",".","c","o","m","/","a">>

\* 'http:///c'
UrlNoNetloc == <<"h","t","t","p",":","/","/","/","c">>

\* 'x.com/c'
UrlNoScheme == <<"x",".","c","o","m","/","c">>

\* 'http://[x.com/c'
UrlBracket == <<"h","t","t","p",":","/","/","[","x",".","c","o","m","/","c">>

\* 'https://m.FaceBook.com/p'
UrlFacebook ==
    <<"h","t","t","p","s",":","/","/","m",".","F","a","c","e","B","o","o",
    "k",".","c","o","m","/","p">>

\* 'http://x.com/reddit.com'
UrlPathFacebook ==
    <<"h","t","t","p",":","/","/","x",".","c","o","m","/","r","e","d","d",
    "i","t",".","c","o","m">>

\* 'http://x.com/i.PNG?w=1'
UrlImage ==
    <<"h","t","t","p",":","/","/","x",".","c","o","m","/","i",".","P","N",
    "G","?","w","=","1">>

\* 'http://x.com/d.pdf;v'
UrlPdfParams ==
    <<"h","t","t","p",":","/","/","x",".","c","o","m","/","d",".","p","d",
    "f",";","v">>

\* '.)'
UrlPunct == <<".",")">>

\* 'http://x.com/a#f'
UrlAFragment ==
    <<"h","t","t","p",":","/","/","x",".","c","o","m","/","a","#","f">>

SampleRawUrls ==
    { UrlA, UrlASlash, UrlAUpper, UrlAQuery, UrlBDot, UrlFtp, UrlNoNetloc,
      UrlNoScheme, UrlBracket, UrlFacebook, UrlPathFacebook, UrlImage,
      UrlPdfParams, UrlPunct, UrlAFragment }

\* The iteration orders of a set of strings: Python leaves the order open.
Orders(S) ==
    {q \in [1..Cardinality(S) -> S] : \A i, j \in DOMAIN q : i # j => q[i] # q[j]}

\* The inputs of the filter runs: urls holds no string twice.
RawLists ==
    UNION {Orders(S) : S \in {T \in SUBSET SampleRawUrls : Cardinality(T) <= MaxRaw}}

\* The pages of the documents: a link annotation, a link in the text, the
\* same link at the end of a line, and a www link to a blocked domain.
\* 'http://y.com/b'
UrlB == <<"h","t","t","p",":","/","/","y",".","c","o","m","/","b">>

\* 'see http://y.com/b now'
TextPlain ==
    <<"s","e","e"," ","h","t","t","p",":","/","/","y",".","c","o","m","/",
    "b"," ","n","o","w">>

\* 'see http://y.com/b\nNext': the link ends its line
TextBroken ==
    <<"s","e","e"," ","h","t","t","p",":","/","/","y",".","c","o","m","/",
    "b","\n","N","e","x","t">>

\* 'at www.reddit.com/r.'
TextWww ==
    <<"a","t"," ","w","w","w",".","r","e","d","d","i","t",".","c","o","m",
    "/","r",".">>

SamplePages ==
    << Page(<<UrlA>>, <<>>),
       Page(<<>>, TextPlain),
       Page(<<>>, TextBroken),
       Page(<<>>, TextWww) >>

\* The documents: up to MaxPages of the sample pages, in their order.
PageLists ==
    {[k \in DOMAIN q |-> SamplePages[q[k]]] :
        q \in {r \in UNION {[1..n -> DOMAIN SamplePages] : n \in 0..MaxPages} :
                  \A i, j \in DOMAIN r : i < j => r[i] < r[j]}}

\* The ways the pdfplumber block and the PyPDF2 fallback fail on n pages.
PrimaryFailures(n) ==
    {NoFailure, Failure("open", 0)} \cup
    {Failure(at, k) : at \in {"annots", "text"}, k \in 1..n}

SecondaryFailures(n) ==
    {NoFailure, Failure("open", 0)} \cup {Failure("annots", k) : k \in 1..n}

\* The fallback is not run, and cannot fail, unless the first block raised.
SamplePdfs ==
    UNION {UNION {{Pdf(ps, f, g) :
                      g \in IF f = NoFailure THEN {NoFailure}
                            ELSE SecondaryFailures(Len(ps))} :
                  f \in PrimaryFailures(Len(ps))} :
           ps \in PageLists}

NoPdf == Pdf(<<>>, NoFailure, NoFailure)

\* The network events of the termination runs.
TerminationEvents ==
    { Response(200, NoBody("Article", <<Run("w", 120), Run("s", 2), Run("w", 130)>>)),
      Response(500, EmptyHtml),
      Raises(Exc("TimeoutError", "")) }

\* The network events of the runs that start from a document.
PipelineEvents ==
    { Response(200, NoBody("Article", <<Run("w", 120), Run("s", 2), Run("w", 130)>>)),
      Response(500, EmptyHtml) }

\* -------------------------------------------------------------- semaphore
\* asyncio.Semaphore.locked
Locked == sem_value = 0 \/ waiters # <<>>

\* _wake_up_next that wakes the waiter without taking the permit back.
WakeUpNextKeepsValue(value, ws, wk) ==
    LET pending == SelectSeq(ws, LAMBDA t : t \notin Range(wk))
    IN  IF pending = <<>> THEN [value |-> value, woken |-> wk]
        ELSE [value |-> value, woken |-> Append(wk, Head(pending))]

\* _wake_up_next that wakes the newest waiter instead of the oldest.
WakeUpNextNewest(value, ws, wk) ==
    LET pending == SelectSeq(ws, LAMBDA t : t \notin Range(wk))
    IN  IF pending = <<>> THEN [value |-> value, woken |-> wk]
        ELSE [value |-> value - 1, woken |-> Append(wk, pending[Len(pending)])]

\* _wake_up_next that wakes nobody.
WakeUpNextNobody(value, ws, wk) == [value |-> value, woken |-> wk]

\* asyncio.Semaphore._wake_up_next on (value, waiters, woken): the first
\* waiter whose future is not done gets the permit.
WakeUpNext(value, ws, wk) ==
    LET pending == SelectSeq(ws, LAMBDA t : t \notin Range(wk))
    IN  IF pending = <<>> THEN [value |-> value, woken |-> wk]
        ELSE [value |-> value - 1, woken |-> Append(wk, Head(pending))]

\* A release that keeps the permit: the slot stays with the finished unit.
ReleaseKeepsPermit(value, ws, wk) == [value |-> value, woken |-> wk]

\* asyncio.Semaphore.release
Release(value, ws, wk) == WakeUpNext(value + 1, ws, wk)

\* ------------------------------------------------------------------- task
TaskReturn(unit) == [raised |-> FALSE, exc |-> NoExc, unit |-> unit]

TaskRaise(e) ==
    [raised |-> TRUE, exc |-> e, unit |-> Unit(FailedPage(0, ""), FALSE, FALSE)]

NoResult == TaskRaise(NoExc)

\* scrape_with_limit, from the acquired semaphore on: what the task ends with.
ScrapeWithLimit(url, ev) == TaskReturn(ScrapeSingleUrl(url, ev, timeout))

\* A task that fetches again when its page is a failure.
AfterUnitRetry(result) ==
    IF result.unit.page.success THEN "done" ELSE "fetching"

\* Every path through scrape_with_limit ends the task: there is no retry.
AfterUnit(result) == "done"

\* A join that ends with the first task to finish.
AnyDone == \E i \in DOMAIN pc : pc[i] = "done"

\* The future of asyncio.gather is done once every task is.
AllDone == \A i \in DOMAIN pc : pc[i] = "done"

\* Results collected in the order the tasks finished.
GatherResultsAsCompleted ==
    [i \in DOMAIN urls |->
        IF i \in DOMAIN doneOrder THEN taskResult[doneOrder[i]] ELSE taskResult[i]]

\* asyncio.gather(*tasks, return_exceptions=True): the results in the order
\* of the tasks.
GatherResults == [i \in DOMAIN urls |-> taskResult[i]]

\* The loop over zip(urls, results) of _scrape_all_urls.
AssemblePages(us, results) ==
    [i \in DOMAIN us |->
        IF results[i].raised
        THEN FailedPage(us[i], results[i].exc.text)
        ELSE results[i].unit.page]

\* --------------------------------------------------------------- endpoint
\* routers/extract.py, extract_pdf_links, from the pair (urls, scraped_pages)
\* on.  ContentCleaner.clean on a text of words and blanks: URLs removed,
\* whitespace normalized to single spaces, which leaves one line, and that
\* line dropped if it is shorter than 20 characters.
ContentCleanerClean(text) ==
    IF text = <<>> THEN <<>>
    ELSE LET line == Strip(CollapseWs(RemoveUrls(text)))
         IN  IF TextLen(line) < MinLineLen THEN <<>> ELSE line

\* keyword_extractor.extract(cleaned_content, n): the keywords and the
\* entities of a text, known here by the text they were computed from.
KeywordExtractorExtract(cleaned_content) ==
    [keywords |-> [kind |-> "keywords", of |-> cleaned_content],
     entities |-> [kind |-> "entities", of |-> cleaned_content]]

\* recommender.get_recommendations(keyword_items, ...): the news found for
\* a list of keywords.
GetRecommendations(keywords) == [kind |-> "news", of |-> keywords]

NoKeywords == [kind |-> "keywords", of |-> <<>>]

NoEntities == [kind |-> "entities", of |-> <<>>]

NoNews == [kind |-> "news", of |-> NoKeywords]

\* A builder of the response that takes every page with success = true for
\* a scraped page, whatever its content.
ResultOkSuccessOnly(page) == page.success

\* "if page.success and page.content" of the loop of step 3 (line 326).
ScrapedOk(page) == page.success /\ page.content # <<>>

\* "if page.success and page.content" of the loop of step 5 (line 377).
ResultOk(page) == page.success /\ page.content # <<>>

\* successful_scrapes: (page, cleaned_content) for every page of step 3.
SuccessfulScrapes(scraped_pages) ==
    LET ok == SelectSeq(scraped_pages, ScrapedOk)
    IN  [k \in DOMAIN ok |->
            [page |-> ok[k], cleaned_content |-> ContentCleanerClean(ok[k].content)]]

\* all_keywords and all_entities of step 3, all_news_results of step 4.
AllKeywords(successful) ==
    [k \in DOMAIN successful |->
        KeywordExtractorExtract(successful[k].cleaned_content).keywords]

AllEntities(successful) ==
    [k \in DOMAIN successful |->
        KeywordExtractorExtract(successful[k].cleaned_content).entities]

AllNewsResults(all_keywords) ==
    [k \in DOMAIN all_keywords |-> GetRecommendations(all_keywords[k])]

\* errors: one line for every page that step 3 did not take.
Errors(scraped_pages) ==
    LET failed == SelectSeq(scraped_pages, LAMBDA page : ~ScrapedOk(page))
    IN  [k \in DOMAIN failed |->
            [url |-> failed[k].url, error_message |-> failed[k].error_message]]

\* LinkAnalysisResult without the preview of the content and the time.
LinkAnalysisResult(source_link, crawl_success, page_title, word_count, keywords, entities, related_news, error_message) ==
    [source_link |-> source_link, crawl_success |-> crawl_success,
     page_title |-> page_title, word_count |-> word_count,
     keywords |-> keywords, entities |-> entities,
     related_news |-> related_news, error_message |-> error_message]

\* The entry of a page that step 5 takes for scraped, at keyword_index k
\* (counted from 1): the lists are read at k if they are that long.
ScrapedEntry(page, k, successful, all_keywords, all_entities, all_news) ==
    LinkAnalysisResult(page.url, TRUE, page.title, page.word_count,
        IF k <= Len(all_keywords) THEN all_keywords[k] ELSE NoKeywords,
        IF k <= Len(all_entities) THEN all_entities[k] ELSE NoEntities,
        IF k <= Len(all_news) THEN all_news[k] ELSE NoNews,
        "")

\* The entry of any other page.
FailedEntry(page) ==
    LinkAnalysisResult(page.url, FALSE, "", 0, NoKeywords, NoEntities,
                       NoNews, page.error_message)

\* The loop of step 5 over scraped_pages from keyword_index k on.
RECURSIVE BuildResults(_, _, _)
BuildResults(scraped_pages, k, successful) ==
    IF scraped_pages = <<>> THEN <<>>
    ELSE IF ResultOk(Head(scraped_pages))
    THEN <<ScrapedEntry(Head(scraped_pages), k, successful,
                        AllKeywords(successful), AllEntities(successful),
                        AllNewsResults(AllKeywords(successful)))>>
         \o BuildResults(Tail(scraped_pages), k + 1, successful)
    ELSE <<FailedEntry(Head(scraped_pages))>>
         \o BuildResults(Tail(scraped_pages), k, successful)

PDFLinkExtractionResponse(total_links_found, total_links_processed, results, errors) ==
    [success |-> TRUE, total_links_found |-> total_links_found,
     total_links_processed |-> total_links_processed, results |-> results,
     errors |-> errors]

NoResponse == [success |-> FALSE]

\* extract_pdf_links after extract_and_scrape has returned (us, scraped_pages).
ExtractPdfLinks(us, scraped_pages) ==
    IF us = <<>>
    THEN PDFLinkExtractionResponse(0, 0, <<>>,
             <<[url |-> 0, error_message |-> "No links found in the PDF"]>>)
    ELSE PDFLinkExtractionResponse(Len(us),
             Len(SuccessfulScrapes(scraped_pages)),
             BuildResults(scraped_pages, 1, SuccessfulScrapes(scraped_pages)),
             Errors(scraped_pages))

\* ---------------------------------------------------------------- actions
Init ==
    /\ pdf = NoPdf
    /\ response = NoResponse
    /\ discovered = {}
    /\ rawOrder = <<>>
    /\ urls \in CandidateLists
    /\ max_concurrent \in ConcurrencyLevels
    /\ timeout = DefaultTimeout
    /\ mainpc = "extracted"
    /\ sem_value = 0
    /\ waiters = <<>>
    /\ woken = <<>>
    /\ pc = <<>>
    /\ nextStart = 1
    /\ taskResult = <<>>
    /\ pages = <<>>
    /\ event = <<>>
    /\ fetchStarts = <<>>
    /\ doneCount = <<>>
    /\ startOrder = <<>>
    /\ doneOrder = <<>>

\* extract_and_scrape: "if not urls: return [], []"
ReturnEmpty ==
    /\ mainpc = "extracted"
    /\ urls = <<>>
    /\ mainpc' = "returned"
    /\ pages' = <<>>
    /\ UNCHANGED <<response, discovery, urls, max_concurrent, timeout,
                   sem_value, waiters, woken, pc,
                   nextStart, taskResult, event, fetchStarts, doneCount,
                   startOrder, doneOrder>>

\* asyncio.Semaphore(self.max_concurrent) raises ValueError for a negative
\* value; nothing catches it.
SemaphoreRaises ==
    /\ mainpc = "extracted"
    /\ urls # <<>>
    /\ max_concurrent < 0
    /\ mainpc' = "raised"
    /\ UNCHANGED <<response, discovery, urls, max_concurrent, timeout,
                   sem_value, waiters, woken, pc,
                   nextStart, taskResult, pages, event, fetchStarts, doneCount,
                   startOrder, doneOrder>>

\* extract_and_scrape without "if not urls: return [], []": the gate and the
\* tasks are created for an empty list too.
DispatchAlways ==
    /\ mainpc = "extracted"
    /\ max_concurrent >= 0
    /\ mainpc' = "gathering"
    /\ sem_value' = max_concurrent
    /\ pc' = [i \in DOMAIN urls |-> "created"]
    /\ taskResult' = [i \in DOMAIN urls |-> NoResult]
    /\ event' = [i \in DOMAIN urls |-> NoEvent]
    /\ fetchStarts' = [i \in DOMAIN urls |-> 0]
    /\ doneCount' = [i \in DOMAIN urls |-> 0]
    /\ UNCHANGED <<response, discovery, urls, max_concurrent, timeout, waiters, woken,
                   nextStart, pages, startOrder, doneOrder>>

\* _scrape_all_urls up to the await of gather: the semaphore and one task
\* per URL.
Dispatch ==
    /\ mainpc = "extracted"
    /\ urls # <<>>
    /\ max_concurrent >= 0
    /\ mainpc' = "gathering"
    /\ sem_value' = max_concurrent
    /\ pc' = [i \in DOMAIN urls |-> "created"]
    /\ taskResult' = [i \in DOMAIN urls |-> NoResult]
    /\ event' = [i \in DOMAIN urls |-> NoEvent]
    /\ fetchStarts' = [i \in DOMAIN urls |-> 0]
    /\ doneCount' = [i \in DOMAIN urls |-> 0]
    /\ UNCHANGED <<response, discovery, urls, max_concurrent, timeout,
                   waiters, woken, nextStart,
                   pages, startOrder, doneOrder>>

\* The fetch of task i begins: _scrape_single_url up to its first suspension
\* inside _fetch_webpage.
StartFetch(i) ==
    /\ pc' = [pc EXCEPT ![i] = "fetching"]
    /\ fetchStarts' = [fetchStarts EXCEPT ![i] = @ + 1]
    /\ startOrder' = Append(startOrder, i)

\* The first step of task i, the semaphore free: "async with semaphore" is
\* entered without suspending.  The event loop runs the first steps in the
\* order gather created the tasks.
TaskStartAcquire(i) ==
    /\ mainpc = "gathering"
    /\ i = nextStart
    /\ pc[i] = "created"
    /\ ~Locked
    /\ sem_value' = sem_value - 1
    /\ nextStart' = i + 1
    /\ StartFetch(i)
    /\ UNCHANGED <<response, discovery, urls, max_concurrent, timeout,
                   mainpc, waiters, woken,
                   taskResult, pages, event, doneCount, doneOrder>>

\* The first step of task i, the semaphore locked: the task joins the waiters.
TaskStartWait(i) ==
    /\ mainpc = "gathering"
    /\ i = nextStart
    /\ pc[i] = "created"
    /\ Locked
    /\ waiters' = Append(waiters, i)
    /\ nextStart' = i + 1
    /\ pc' = [pc EXCEPT ![i] = "waiting"]
    /\ UNCHANGED <<response, discovery, urls, max_concurrent, timeout,
                   mainpc, sem_value, woken,
                   taskResult, pages, event, fetchStarts, doneCount,
                   startOrder, doneOrder>>

\* A woken waiter resumes in acquire(), leaves the waiters and enters its
\* fetch.  The event loop resumes woken waiters in the order they were woken.
WaiterResume(i) ==
    /\ mainpc = "gathering"
    /\ pc[i] = "waiting"
    /\ woken # <<>>
    /\ i = Head(woken)
    /\ LET ws == SelectSeq(waiters, LAMBDA t : t # i)
           wk == Tail(woken)
           s  == IF sem_value > 0 THEN WakeUpNext(sem_value, ws, wk)
                 ELSE [value |-> sem_value, woken |-> wk]
       IN  /\ waiters' = ws
           /\ sem_value' = s.value
           /\ woken' = s.woken
    /\ StartFetch(i)
    /\ UNCHANGED <<response, discovery, urls, max_concurrent, timeout,
                   mainpc, nextStart,
                   taskResult, pages, event, doneCount, doneOrder>>

\* A task that leaves "async with semaphore" without a release when its
\* unit ends in a failure page.
FetchReturnLeaksOnFailure(i, ev) ==
    /\ mainpc = "gathering"
    /\ pc[i] = "fetching"
    /\ taskResult' = [taskResult EXCEPT ![i] = ScrapeWithLimit(urls[i], ev)]
    /\ event' = [event EXCEPT ![i] = ev]
    /\ LET s == IF taskResult'[i].unit.page.success
                THEN Release(sem_value, waiters, woken)
                ELSE [value |-> sem_value, woken |-> woken]
       IN  /\ sem_value' = s.value
           /\ woken' = s.woken
    /\ pc' = [pc EXCEPT ![i] = AfterUnit(taskResult'[i])]
    /\ doneCount' = [doneCount EXCEPT ![i] = @ + 1]
    /\ doneOrder' = Append(doneOrder, i)
    /\ UNCHANGED <<response, discovery, urls, max_concurrent, timeout,
                   mainpc, waiters, nextStart,
                   pages, fetchStarts, startOrder>>

\* The fetch of task i ends with network event ev.  Nothing suspends between
\* the return of _fetch_webpage and the end of the task: extraction,
\* cleaning, the release of the semaphore and the task's result are one step.
FetchReturn(i, ev) ==
    /\ mainpc = "gathering"
    /\ pc[i] = "fetching"
    /\ taskResult' = [taskResult EXCEPT ![i] = ScrapeWithLimit(urls[i], ev)]
    /\ event' = [event EXCEPT ![i] = ev]
    /\ LET s == Release(sem_value, waiters, woken)
       IN  /\ sem_value' = s.value
           /\ woken' = s.woken
    /\ pc' = [pc EXCEPT ![i] = AfterUnit(taskResult'[i])]
    /\ doneCount' = [doneCount EXCEPT ![i] = @ + 1]
    /\ doneOrder' = Append(doneOrder, i)
    /\ UNCHANGED <<response, discovery, urls, max_concurrent, timeout,
                   mainpc, waiters, nextStart,
                   pages, fetchStarts, startOrder>>

\* gather's future is done when every task is; _scrape_all_urls builds
\* scraped_pages and extract_and_scrape returns (urls, scraped_pages).
GatherReturn ==
    /\ mainpc = "gathering"
    /\ AllDone
    /\ pages' = AssemblePages(urls, GatherResults)
    /\ mainpc' = "returned"
    /\ UNCHANGED <<response, discovery, urls, max_concurrent, timeout,
                   sem_value, waiters, woken, pc,
                   nextStart, taskResult, event, fetchStarts, doneCount,
                   startOrder, doneOrder>>

Next ==
    \/ ReturnEmpty
    \/ SemaphoreRaises
    \/ Dispatch
    \/ \E i \in Tasks : TaskStartAcquire(i)
    \/ \E i \in Tasks : TaskStartWait(i)
    \/ \E i \in Tasks : WaiterResume(i)
    \/ \E i \in Tasks : \E ev \in SampleEvents : FetchReturn(i, ev)
    \/ GatherReturn

Spec == Init /\ [][Next]_vars

\* --------------------------------------------------- the run from the PDF
\* _extract_urls_from_pdf up to "Filter and validate URLs": both backends
\* have run or raised, and the loop over the set urls will meet its members
\* in some order.
DiscoverUrls ==
    /\ mainpc = "start"
    /\ discovered' = DiscoveredUrls(pdf)
    /\ rawOrder' \in Orders(discovered')
    /\ mainpc' = "discovered"
    /\ UNCHANGED <<response, pdf, urls, max_concurrent, timeout, sem_value, waiters,
                   woken, pc, nextStart, taskResult, pages, event,
                   fetchStarts, doneCount, startOrder, doneOrder>>

\* The filter loop of _extract_urls_from_pdf and its return to
\* extract_and_scrape.
FilterAction ==
    /\ mainpc = "discovered"
    /\ urls' = FilterUrls(rawOrder)
    /\ mainpc' = "extracted"
    /\ UNCHANGED <<response, discovery, max_concurrent, timeout, sem_value, waiters,
                   woken, pc, nextStart, taskResult, pages, event,
                   fetchStarts, doneCount, startOrder, doneOrder>>

\* extract_and_scrape is called with the bytes of a document.
PipelineInit ==
    /\ pdf \in SamplePdfs
    /\ response = NoResponse
    /\ discovered = {}
    /\ rawOrder = <<>>
    /\ urls = <<>>
    /\ max_concurrent \in ConcurrencyLevels
    /\ timeout = DefaultTimeout
    /\ mainpc = "start"
    /\ sem_value = 0
    /\ waiters = <<>>
    /\ woken = <<>>
    /\ pc = <<>>
    /\ nextStart = 1
    /\ taskResult = <<>>
    /\ pages = <<>>
    /\ event = <<>>
    /\ fetchStarts = <<>>
    /\ doneCount = <<>>
    /\ startOrder = <<>>
    /\ doneOrder = <<>>

PipelineNext ==
    \/ DiscoverUrls
    \/ FilterAction
    \/ ReturnEmpty
    \/ SemaphoreRaises
    \/ Dispatch
    \/ \E i \in Tasks : TaskStartAcquire(i)
    \/ \E i \in Tasks : TaskStartWait(i)
    \/ \E i \in Tasks : WaiterResume(i)
    \/ \E i \in Tasks : \E ev \in PipelineEvents : FetchReturn(i, ev)
    \/ GatherReturn

PipelineSpec == PipelineInit /\ [][PipelineNext]_vars

\* ----------------------------------------------- the run from the filter
\* The filter loop begins on a set urls of raw strings, met in some order;
\* its candidates go through a gate of one slot.
FilterInit ==
    /\ pdf = NoPdf
    /\ response = NoResponse
    /\ rawOrder \in RawLists
    /\ discovered = Range(rawOrder)
    /\ urls = <<>>
    /\ max_concurrent = 1
    /\ timeout = DefaultTimeout
    /\ mainpc = "discovered"
    /\ sem_value = 0
    /\ waiters = <<>>
    /\ woken = <<>>
    /\ pc = <<>>
    /\ nextStart = 1
    /\ taskResult = <<>>
    /\ pages = <<>>
    /\ event = <<>>
    /\ fetchStarts = <<>>
    /\ doneCount = <<>>
    /\ startOrder = <<>>
    /\ doneOrder = <<>>

\* The fetch of every candidate of these runs ends with an error status.
FilterRunEvents == {Response(500, EmptyHtml)}

FilterNext ==
    \/ FilterAction
    \/ ReturnEmpty
    \/ Dispatch
    \/ \E i \in Tasks : TaskStartAcquire(i)
    \/ \E i \in Tasks : TaskStartWait(i)
    \/ \E i \in Tasks : WaiterResume(i)
    \/ \E i \in Tasks : \E ev \in FilterRunEvents : FetchReturn(i, ev)
    \/ GatherReturn

FilterSpec == FilterInit /\ [][FilterNext]_vars

\* ------------------------------------------------- the cleaning of raw URLs
\* Raw URLs with whitespace and punctuation at their ends.
\* 'http://x.com/a .'
UrlASpaceDot ==
    <<"h","t","t","p",":","/","/","x",".","c","o","m","/","a"," ",".">>

\* 'http://x.com/c\t;'
UrlCTabSemi ==
    <<"h","t","t","p",":","/","/","x",".","c","o","m","/","c","\t",";">>

\* ' '
UrlBlank == <<" ">>

\* 'http://x.com/d";>'
UrlDQuote ==
    <<"h","t","t","p",":","/","/","x",".","c","o","m","/","d","\"",";",">">>

CleanSamples ==
    {UrlA, UrlBDot, UrlPunct, UrlBlank, UrlDQuote, UrlASpaceDot, UrlCTabSemi}

CleanLists ==
    UNION {Orders(S) : S \in {T \in SUBSET CleanSamples : Cardinality(T) <= MaxRaw}}

\* The filter runs over these raw URLs.
CleanInit ==
    /\ pdf = NoPdf
    /\ response = NoResponse
    /\ rawOrder \in CleanLists
    /\ discovered = Range(rawOrder)
    /\ urls = <<>>
    /\ max_concurrent = 1
    /\ timeout = DefaultTimeout
    /\ mainpc = "discovered"
    /\ sem_value = 0
    /\ waiters = <<>>
    /\ woken = <<>>
    /\ pc = <<>>
    /\ nextStart = 1
    /\ taskResult = <<>>
    /\ pages = <<>>
    /\ event = <<>>
    /\ fetchStarts = <<>>
    /\ doneCount = <<>>
    /\ startOrder = <<>>
    /\ doneOrder = <<>>

CleanNext ==
    \/ FilterAction
    \/ ReturnEmpty
    \/ Dispatch
    \/ \E i \in Tasks : TaskStartAcquire(i)
    \/ \E i \in Tasks : TaskStartWait(i)
    \/ \E i \in Tasks : WaiterResume(i)
    \/ \E i \in Tasks : \E ev \in FilterRunEvents : FetchReturn(i, ev)
    \/ GatherReturn

CleanSpec == CleanInit /\ [][CleanNext]_vars

\* ------------------------------------------------ the run of one document
\* The texts of the extraction runs, by their length: below, at and above
\* the 200 characters of the extractor, and above the 50000 of the cleaning.
Text50 == <<Run("w", 50)>>

Text150 == <<Run("w", 150)>>

Text200 == <<Run("w", 200)>>

Text201 == <<Run("w", 201)>>

Text250 == <<Run("w", 120), Run("s", 1), Run("w", 129)>>

Text301 == <<Run("w", 150), Run("s", 1), Run("w", 150)>>

TextLong == <<Run("w", 30000), Run("s", 3), Run("w", 30000)>>

\* What the content selectors find: up to MaxContainers elements, in the
\* order of the selector list.
ContainerTexts == {Text50, Text200, Text201, Text250}

SampleContainers == UNION {[1..n -> ContainerTexts] : n \in 0..MaxContainers}

\* What newspaper makes of a document: parse raises, or a title and a text.
NewspaperTexts == {<<>>, Text150, Text200, Text201, TextLong}

\* What soup.find('body') gives: no body, or its text.
BodyTexts == {Text50, Text301}

\* The documents of the extraction runs.
SoupRaisesHtmls ==
    {Html(FALSE, TRUE, "", <<>>, TRUE, FALSE, "", <<>>, FALSE, <<>>)} \cup
    {Html(FALSE, FALSE, "Article", x, TRUE, FALSE, "", <<>>, FALSE, <<>>) :
        x \in NewspaperTexts}

SoupParsesHtmls(nr, nt, nx) ==
    UNION {{Html(FALSE, nr, nt, nx, FALSE, ht, IF ht THEN "Title" ELSE "", cs,
                 FALSE, <<>>) : ht \in BOOLEAN} \cup
           {Html(FALSE, nr, nt, nx, FALSE, ht, IF ht THEN "Title" ELSE "", cs,
                 TRUE, bd) : ht \in BOOLEAN, bd \in BodyTexts} :
           cs \in SampleContainers}

SampleHtmls ==
    SoupRaisesHtmls \cup SoupParsesHtmls(TRUE, "", <<>>) \cup
    UNION {SoupParsesHtmls(FALSE, "Article", x) : x \in NewspaperTexts}

\* Every fetch of these runs ends with a 200 response.
ExtractEvents == {Response(200, h) : h \in SampleHtmls}

\* One candidate, one slot: the unit of work on one fetched document.
ExtractInit ==
    /\ pdf = NoPdf
    /\ response = NoResponse
    /\ rawOrder = <<>>
    /\ discovered = {}
    /\ urls = <<1>>
    /\ max_concurrent = 1
    /\ timeout = DefaultTimeout
    /\ mainpc = "extracted"
    /\ sem_value = 0
    /\ waiters = <<>>
    /\ woken = <<>>
    /\ pc = <<>>
    /\ nextStart = 1
    /\ taskResult = <<>>
    /\ pages = <<>>
    /\ event = <<>>
    /\ fetchStarts = <<>>
    /\ doneCount = <<>>
    /\ startOrder = <<>>
    /\ doneOrder = <<>>

ExtractNext ==
    \/ Dispatch
    \/ \E i \in Tasks : TaskStartAcquire(i)
    \/ \E i \in Tasks : \E ev \in ExtractEvents : FetchReturn(i, ev)
    \/ GatherReturn

ExtractSpec == ExtractInit /\ [][ExtractNext]_vars

\* ------------------------------------------------------- the endpoint run
\* extract_pdf_links builds its response from (urls, scraped_pages).
Respond ==
    /\ mainpc = "returned"
    /\ response = NoResponse
    /\ response' = ExtractPdfLinks(urls, pages)
    /\ UNCHANGED <<discovery, urls, max_concurrent, timeout, mainpc,
                   sem_value, waiters, woken, pc, nextStart, taskResult,
                   pages, event, fetchStarts, doneCount, startOrder,
                   doneOrder>>

\* The candidate lists of the endpoint runs: 1..n.
ResponseLists == {[i \in 1..n |-> i] : n \in 0..MaxUrls}

\* The fetches of the endpoint runs: two articles of different length, a
\* page of boilerplate only, and an error status.
ResponseEvents ==
    { Response(200, NoBody("Article", Text250)),
      Response(200, BodyOnly(Text301)),
      Response(200, BodyOnly(<<Run("b", 120)>>)),
      Response(500, EmptyHtml) }

ResponseInit ==
    /\ pdf = NoPdf
    /\ response = NoResponse
    /\ rawOrder = <<>>
    /\ discovered = {}
    /\ urls \in ResponseLists
    /\ max_concurrent = MaxConcurrent
    /\ timeout = DefaultTimeout
    /\ mainpc = "extracted"
    /\ sem_value = 0
    /\ waiters = <<>>
    /\ woken = <<>>
    /\ pc = <<>>
    /\ nextStart = 1
    /\ taskResult = <<>>
    /\ pages = <<>>
    /\ event = <<>>
    /\ fetchStarts = <<>>
    /\ doneCount = <<>>
    /\ startOrder = <<>>
    /\ doneOrder = <<>>

ResponseNext ==
    \/ ReturnEmpty
    \/ Dispatch
    \/ \E i \in Tasks : TaskStartAcquire(i)
    \/ \E i \in Tasks : TaskStartWait(i)
    \/ \E i \in Tasks : WaiterResume(i)
    \/ \E i \in Tasks : \E ev \in ResponseEvents : FetchReturn(i, ev)
    \/ GatherReturn
    \/ Respond

ResponseSpec == ResponseInit /\ [][ResponseNext]_vars

\* ------------------------------------------------------------- fairness
\* The batch run in which every fetch ends in one of three ways: with a
\* page, with an error status, or with the timeout of the client.
FairNext ==
    \/ ReturnEmpty
    \/ SemaphoreRaises
    \/ Dispatch
    \/ \E i \in Tasks : TaskStartAcquire(i)
    \/ \E i \in Tasks : TaskStartWait(i)
    \/ \E i \in Tasks : WaiterResume(i)
    \/ \E i \in Tasks : \E ev \in TerminationEvents : FetchReturn(i, ev)
    \/ GatherReturn

\* The event loop runs every step that is ready, and every fetch ends.
Fairness ==
    /\ WF_vars(ReturnEmpty \/ SemaphoreRaises \/ Dispatch \/ GatherReturn)
    /\ WF_vars(\E i \in Tasks : TaskStartAcquire(i) \/ TaskStartWait(i)
                                   \/ WaiterResume(i))
    /\ WF_vars(\E i \in Tasks : \E ev \in TerminationEvents : FetchReturn(i, ev))

FairSpec == Init /\ [][FairNext]_vars /\ Fairness



\* ----------------------------------------------------------------- claims
InFlight == {i \in Tasks : pc[i] = "fetching"}

Returned == mainpc = "returned"

\* The fetch of network event ev fails: an exception of the transport, a
\* status outside 2xx, or an empty body.
FetchFailed(ev) ==
    \/ ev.kind = "raise"
    \/ ev.kind = "response" /\ (ev.status < 200 \/ ev.status > 299)
    \/ ev.kind = "response" /\ ev.html.empty

\* Some task finished before a task that precedes it in the list.
FinishedOutOfOrder ==
    \E a, b \in DOMAIN doneOrder : a < b /\ doneOrder[a] > doneOrder[b]

\* C1: with max_concurrent = N >= 1, the number of URLs whose fetch has
\* started and not yet finished is at most N in every reachable state.
C1_ConcurrencyBound ==
    max_concurrent >= 1 => Cardinality(InFlight) <= max_concurrent

\* C1 witness: N >= 2 fetches are in flight while a further URL waits for
\* the gate.
C1_Witness ==
    /\ max_concurrent >= 2
    /\ Cardinality(InFlight) = max_concurrent
    /\ waiters # <<>>

\* C2: when extract_and_scrape returns (urls, pages), len(pages) = len(urls)
\* and pages[i].url = urls[i] for every i, whatever order the units finished in.
C2_OrderPreserved ==
    Returned =>
        /\ Len(pages) = Len(urls)
        /\ \A i \in DOMAIN urls : pages[i].url = urls[i]

\* C2 witness: a run of three URLs returned, a later URL having finished
\* before an earlier one.
C2_Witness ==
    /\ Returned
    /\ Len(urls) >= 3
    /\ FinishedOutOfOrder

\* The page of URL u in a run of its own whose fetch meets network event ev.
AlonePage(u, ev) == AssemblePages(<<u>>, <<ScrapeWithLimit(u, ev)>>)[1]

\* The exception raised inside the unit whose fetch meets network event ev:
\* by the fetch, or by the stage named in ev.crashAt if the unit gets there.
RaisedInUnit(ev) ==
    IF ev.kind = "raise" THEN [raised |-> TRUE, exc |-> ev.exc]
    ELSE IF ev.status < 200 \/ ev.status > 299
    THEN [raised |-> TRUE,
          exc |-> Exc("httpx.HTTPStatusError", StatusErrorText(ev.status))]
    ELSE IF ev.html.empty THEN [raised |-> FALSE, exc |-> NoExc]
    ELSE IF ev.crashAt = "extract" THEN [raised |-> TRUE, exc |-> ev.exc]
    ELSE IF ev.crashAt = "clean"
            /\ TextLen(ExtractArticleContent(ev.html)[2]) >= MinContentLen
    THEN [raised |-> TRUE, exc |-> ev.exc]
    ELSE [raised |-> FALSE, exc |-> NoExc]

IsScrapedPage(p) ==
    /\ DOMAIN p = {"url", "success", "title", "content", "word_count",
                   "error_message", "scrape_time_ms"}
    /\ p.success \in BOOLEAN

\* C3: when one URL's fetch fails the run returns one page per candidate,
\* the failing URL's page has success = false and a non-empty error message,
\* and every page is the page its URL gets in a run of its own.
C3_Isolation ==
    Returned =>
        /\ Len(pages) = Len(urls)
        /\ \A i \in DOMAIN urls :
              /\ FetchFailed(event[i]) =>
                    ~pages[i].success /\ pages[i].error_message # ""
              /\ pages[i] = AlonePage(urls[i], event[i])

\* C3, without the error message: the count, the failure flag and the
\* independence of every page from the other URLs.
C3_IsolationOfPages ==
    Returned =>
        /\ Len(pages) = Len(urls)
        /\ \A i \in DOMAIN urls :
              /\ FetchFailed(event[i]) => ~pages[i].success
              /\ pages[i] = AlonePage(urls[i], event[i])

C5_SuccessIffContent ==
    Returned =>
        \A i \in DOMAIN pages :
            pages[i].success <=>
                (TextLen(pages[i].content) >= MinContentLen
                 /\ pages[i].error_message = "")

\* C6: the threshold is applied to the cleaned content: a fetched page whose
\* cleaned content has fewer than 100 characters yields success = false with
\* the insufficient-content message, one with at least 100 yields
\* success = true.
C6_ThresholdAfterCleaning ==
    \A i \in Tasks :
        (pc[i] = "done" /\ ~FetchFailed(event[i]) /\ event[i].crashAt = "none") =>
            LET cleaned == CleanContent(ExtractArticleContent(event[i].html)[2])
                page == taskResult[i].unit.page
            IN  IF TextLen(cleaned) < MinContentLen
                THEN /\ ~page.success
                     /\ page.error_message =
                           "Could not extract sufficient content from page"
                ELSE page.success

\* C7: each URL's fetch starts at most once, its unit finishes at most once,
\* a finished unit stays finished with its result, and at the return every
\* URL was fetched once and finished once.
C7_AttemptedOnce ==
    [][ /\ \A i \in DOMAIN pc' : fetchStarts'[i] <= 1 /\ doneCount'[i] <= 1
        /\ \A i \in Tasks :
              pc[i] = "done" =>
                 /\ pc'[i] = "done"
                 /\ taskResult'[i] = taskResult[i]
                 /\ fetchStarts'[i] = fetchStarts[i]
        /\ mainpc' = "returned" =>
              \A i \in DOMAIN urls : fetchStarts'[i] = 1 /\ doneCount'[i] = 1
      ]_vars

\* C7 witness: the run returned with a failed fetch and a failed extraction
\* among its pages.
C7_Witness ==
    /\ Returned
    /\ \E i \in Tasks : FetchFailed(event[i])
    /\ \E i \in Tasks : ~FetchFailed(event[i]) /\ ~pages[i].success

\* C8: a URL whose fetch failed (exception, error status or empty body) has
\* a page with success = false, and neither the extractor nor the cleaner
\* was invoked for it.
C8_NoExtractionAfterFetchFailure ==
    \A i \in Tasks :
        (pc[i] = "done" /\ FetchFailed(event[i])) =>
            /\ ~taskResult[i].unit.page.success
            /\ ~taskResult[i].unit.extracted
            /\ ~taskResult[i].unit.cleaned

\* C8 witness: one unit ended on an empty body, another on an error status,
\* and a third ran the extractor.
C8_Witness ==
    /\ \E i \in Tasks :
          pc[i] = "done" /\ event[i].kind = "response" /\ event[i].status = 200
          /\ event[i].html.empty
    /\ \E i \in Tasks : pc[i] = "done" /\ event[i].status = 500
    /\ \E i \in Tasks : pc[i] = "done" /\ taskResult[i].unit.extracted

\* C9: the run has returned, or holds any page in its final list, only when
\* every unit has finished: none is waiting for the gate or fetching.
C9_FullBatchJoin ==
    (Returned \/ pages # <<>>) =>
        /\ Tasks = DOMAIN urls
        /\ \A i \in Tasks : pc[i] = "done"

\* C9 witness: a run with more URLs than gate slots has returned its pages.
C9_Witness ==
    /\ Returned
    /\ max_concurrent >= 1
    /\ Len(pages) > max_concurrent

\* C10: fetches start in the order of the candidate list, and a fetch starts
\* only while fewer than N fetches are in flight.
C10_DispatchOrder ==
    [][ startOrder' # startOrder =>
          /\ startOrder' = Append(startOrder, Len(startOrder) + 1)
          /\ Cardinality(InFlight) < max_concurrent
      ]_vars

\* C10 witness: a URL that had to wait for the gate has started its fetch,
\* in a run whose units finished out of list order.
C10_Witness ==
    /\ max_concurrent >= 2
    /\ Len(startOrder) > max_concurrent
    /\ FinishedOutOfOrder

\* C11: for every candidate list and max_concurrent >= 1, if every fetch ends
\* (FairSpec), every unit reaches "done" and extract_and_scrape returns; and
\* the run never returns before every unit is done: no deadline and no
\* cancellation ends it earlier.
C11_Termination ==
    /\ (mainpc = "extracted" /\ max_concurrent >= 1) ~>
          (Returned /\ \A i \in DOMAIN urls : i \in Tasks /\ pc[i] = "done")
    /\ [](Returned => \A i \in DOMAIN urls : i \in Tasks /\ pc[i] = "done")

\* C11 witness: a run of MaxUrls URLs through a gate of one slot returned,
\* one of its fetches having timed out and one having succeeded.
C11_Witness ==
    /\ Returned
    /\ max_concurrent = 1
    /\ Len(urls) = MaxUrls
    /\ \E i \in Tasks : event[i].exc.type = "TimeoutError"
    /\ \E i \in Tasks : pages[i].success

\* The tasks waiting for the gate that no release has woken yet, oldest first.
PendingWaiters == SelectSeq(waiters, LAMBDA t : t \notin Range(woken))

Filtered == mainpc \notin {"start", "discovered"}

\* No gate was created and no task or fetch was started.
NoFetch ==
    /\ mainpc \in {"extracted", "returned"}
    /\ pc = <<>>
    /\ startOrder = <<>>
    /\ sem_value = 0

JustFiltered == mainpc = "extracted"

\* The filter's contract, stated on a URL string: what urlparse makes of it.
\* The key of a URL: lower(netloc + path) with trailing slashes stripped.
KeyOf(url) ==
    LET parsed == UrlParse(url)
    IN  RStripChars(StrLower(parsed.netloc \o parsed.path), {"/"})

\* url parses, with scheme http or https and a non-empty netloc.
HttpWithNetloc(url) ==
    LET parsed == UrlParse(url)
    IN  /\ ~parsed.raises
        /\ parsed.scheme \in {Http, Https}
        /\ parsed.netloc # <<>>

\* The lower-cased netloc of url contains an entry of the domain blocklist.
BlockedDomain(url) ==
    LET domain == StrLower(UrlParse(url).netloc)
    IN  \E d \in SKIP_DOMAINS : Contains(domain, d)

\* The lower-cased path of url ends with an entry of the extension blocklist.
BlockedExtension(url) ==
    LET path_lower == StrLower(UrlParse(url).path)
    IN  \E e \in SKIP_EXTENSIONS : EndsWith(path_lower, e)

\* The filter's input at index k, cleaned.
Cleaned(k) == CleanUrl(rawOrder[k])

\* C14: no two URLs of the filter's output have the same key
\* lower(netloc + path) with trailing slash stripped; the input
\* {http://x.com/a, http://x.com/a/} produces exactly one candidate.
C14_Dedup ==
    JustFiltered =>
        /\ \A i, j \in DOMAIN urls : i # j => KeyOf(urls[i]) # KeyOf(urls[j])
        /\ Range(rawOrder) = {UrlA, UrlASlash} => Len(urls) = 1

\* C14 witness: of http://x.com/a/ and http://x.com/a, met in this order,
\* the filter kept one.
C14_Witness ==
    /\ Filtered
    /\ rawOrder = <<UrlASlash, UrlA>>
    /\ Len(urls) = 1

\* C15: no URL of the filter's output has a netloc that, lower-cased,
\* contains an entry of the domain blocklist, whatever its path, scheme or
\* letter case; no such URL is given a task or fetched.
C15_DomainBlocklist ==
    /\ JustFiltered =>
          /\ \A i \in DOMAIN urls : ~BlockedDomain(urls[i])
          /\ \A k \in DOMAIN rawOrder :
                Cleaned(k) \in Range(urls) => ~BlockedDomain(Cleaned(k))
    /\ \A i \in Tasks : i \in DOMAIN urls
    /\ \A i \in DOMAIN fetchStarts :
          fetchStarts[i] > 0 => ~BlockedDomain(urls[i])

\* C15 witness: https://m.FaceBook.com/p was discarded, and
\* http://x.com/reddit.com, a blocklist entry in its path only, was fetched.
C15_Witness ==
    /\ Returned
    /\ UrlFacebook \in Range(rawOrder)
    /\ urls = <<UrlPathFacebook>>
    /\ fetchStarts = <<1>>

\* C16: every URL of the filter's output, and so every URL given a task,
\* parses with scheme http or https and a non-empty netloc; a raw URL that
\* fails this is discarded and nothing is raised.
C16_SchemeAndNetloc ==
    /\ JustFiltered =>
          /\ \A i \in DOMAIN urls : HttpWithNetloc(urls[i])
          /\ \A k \in DOMAIN rawOrder :
                Cleaned(k) \in Range(urls) => HttpWithNetloc(Cleaned(k))
    /\ \A i \in Tasks : i \in DOMAIN urls
    /\ mainpc # "raised"

\* C16 witness: a URL for which urlparse raises and a URL without a netloc
\* were discarded, and the one candidate left was fetched.
C16_Witness ==
    /\ Returned
    /\ UrlBracket \in Range(rawOrder)
    /\ UrlNoNetloc \in Range(rawOrder)
    /\ Len(urls) = 1
    /\ fetchStarts = <<1>>

\* C17: no URL of the filter's output has a path that, lower-cased, ends
\* with an extension of the extension blocklist.
C17_ExtensionBlocklist ==
    JustFiltered =>
        /\ \A i \in DOMAIN urls : ~BlockedExtension(urls[i])
        /\ \A k \in DOMAIN rawOrder :
              Cleaned(k) \in Range(urls) => ~BlockedExtension(Cleaned(k))

\* C17 witness: http://x.com/i.PNG?w=1 and http://x.com/d.pdf;v were
\* discarded, http://x.com/a was kept.
C17_Witness ==
    /\ Filtered
    /\ Range(rawOrder) = {UrlImage, UrlPdfParams, UrlA}
    /\ urls = <<UrlA>>

\* The cleaned input at index k passes every test of the filter but the
\* test for duplicates.
EligibleUrl(url) ==
    /\ url # <<>>
    /\ HttpWithNetloc(url)
    /\ ~BlockedDomain(url)
    /\ ~BlockedExtension(url)

\* The same of the input at index k.
Eligible(k) == EligibleUrl(Cleaned(k))

\* The eligible inputs' indices, in the order of the input.
EligibleIndices == SelectSeq([k \in DOMAIN rawOrder |-> k], Eligible)

\* The keys of the inputs at the indices idx.
KeysAt(idx) == [n \in DOMAIN idx |-> KeyOf(Cleaned(idx[n]))]

\* The positions of keys that hold the first occurrence of their key.
FirstOfKey(keys) ==
    {n \in DOMAIN keys : \A m \in 1..(n - 1) : keys[m] # keys[n]}

\* The subsequence of seq at the positions keep.
Subsequence(seq, keep) ==
    LET F[n \in 0..Len(seq)] ==
            IF n = 0 THEN <<>>
            ELSE IF n \in keep THEN Append(F[n - 1], seq[n]) ELSE F[n - 1]
    IN  F[Len(seq)]

\* C18: the filter's output is, in the order of the input, the first
\* eligible input of every key, as the cleaned original string: its case,
\* scheme, query and trailing slash are those of the input.
C18_FirstSeenOrder ==
    JustFiltered =>
        LET idx == EligibleIndices
            cleaned == [n \in DOMAIN idx |-> Cleaned(idx[n])]
        IN  urls = Subsequence(cleaned, FirstOfKey(KeysAt(idx)))

\* C18 witness: of HTTP://X.com/A, http://x.com/a/ and ' http://x.com/b.) '
\* the filter kept the first and the third, the third without its blanks
\* and punctuation.
C18_Witness ==
    /\ Filtered
    /\ rawOrder = <<UrlAUpper, UrlASlash, UrlBDot>>
    /\ Len(urls) = 2
    /\ urls[1] = UrlAUpper
    /\ urls[2] = CleanUrl(UrlBDot)

\* The http(s) links of a page's text layer as they stand in the text: the
\* matches of URL_PATTERN in the text of the page, line by line.
PlainTextLinks(page) == Range(UrlPatternFindall(page.text, 1))

\* The http(s) links the code finds in the text layer: the matches of
\* URL_PATTERN after the lines have been rejoined.
RejoinedTextLinks(page) ==
    Range(UrlPatternFindall(RejoinLines(page.text), 1))

\* The primary backend has read the whole document.
PrimaryParsed == mainpc # "start" /\ pdf.primary = NoFailure

ErrorStatus(ev) == ev.kind = "response" /\ (ev.status < 200 \/ ev.status > 299)

\* The response of event ev is a 2xx response with an empty body.
EmptyBody(ev) == ev.kind = "response" /\ ~ErrorStatus(ev) /\ ev.html.empty

\* The fetch of event ev exceeded the timeout: httpx raised one of its
\* timeout exceptions, or asyncio.TimeoutError was raised.
TimedOut(ev) ==
    ev.kind = "raise" /\ ev.exc.type \in {"httpx.ReadTimeout", "TimeoutError"}

\* C20: in the returned list, the page of a non-2xx response has
\* success = false and an error_message that names the status, the page of
\* an empty body has success = false and the message 'Empty response from
\* server', and the page of a fetch that exceeded the timeout has
\* success = false and the message 'Timeout after {timeout}s'.
C20_FailureKinds ==
    Returned =>
        \A i \in DOMAIN urls :
            /\ ErrorStatus(event[i]) =>
                  /\ ~pages[i].success
                  /\ pages[i].error_message = StatusErrorText(event[i].status)
            /\ EmptyBody(event[i]) =>
                  /\ ~pages[i].success
                  /\ pages[i].error_message = "Empty response from server"
            /\ TimedOut(event[i]) =>
                  /\ ~pages[i].success
                  /\ pages[i].error_message = TimeoutMessage(timeout)

\* C20, for the failures the code does tell apart: the status, the empty
\* body, and asyncio.TimeoutError; every timeout gives success = false.
C20_StatusAndEmptyBody ==
    Returned =>
        \A i \in DOMAIN urls :
            /\ ErrorStatus(event[i]) =>
                  /\ ~pages[i].success
                  /\ pages[i].error_message = StatusErrorText(event[i].status)
            /\ EmptyBody(event[i]) =>
                  /\ ~pages[i].success
                  /\ pages[i].error_message = "Empty response from server"
            /\ TimedOut(event[i]) =>
                  /\ ~pages[i].success
                  /\ event[i].exc.type = "TimeoutError" =>
                        pages[i].error_message = TimeoutMessage(timeout)

\* The unit of task i is done and it called the extractor on the body it
\* fetched.
Extracted(i) ==
    /\ pc[i] = "done"
    /\ ~taskResult[i].raised
    /\ taskResult[i].unit.extracted
    /\ event[i].crashAt = "none"

\* Neither strategy gave a title or a text: newspaper raised or found
\* nothing, and BeautifulSoup raised or found no title, container or body.
NoOutput(html) ==
    /\ html.npRaises \/ (html.npTitle = "" /\ html.npText = <<>>)
    /\ \/ html.bsRaises
       \/ ~html.hasTitleTag /\ html.containers = <<>> /\ ~html.hasBody

StructuredAccepted(html) ==
    ~html.npRaises /\ TextLen(html.npText) > MinArticleLen

\* The DOM fallback was run: the first try statement did not return.
FallbackRun(html) == ~Handled(TryNewspaper(html)).returned

\* The content the DOM fallback produces from the document by itself.
DomContent(html) == Handled(TrySoup(html, "", <<>>)).content

\* C22: the newspaper result is returned, and the DOM fallback is not run,
\* if and only if newspaper completed with a content longer than 200
\* characters; otherwise the returned content is the one the DOM fallback
\* produced.
C22_StrategyOrder ==
    \A i \in Tasks :
        Extracted(i) =>
            LET html == event[i].html
                tc == ExtractArticleContent(html)
            IN  /\ StructuredAccepted(html) <=> ~FallbackRun(html)
                /\ StructuredAccepted(html) => tc = <<html.npTitle, html.npText>>
                /\ ~StructuredAccepted(html) => tc[2] = DomContent(html)

\* C22, for the accepted structured result only: it is returned, and the
\* DOM fallback is not run, if and only if newspaper completed with a
\* content longer than 200 characters.
C22_StructuredFirst ==
    \A i \in Tasks :
        Extracted(i) =>
            LET html == event[i].html
                tc == ExtractArticleContent(html)
            IN  /\ StructuredAccepted(html) <=> ~FallbackRun(html)
                /\ StructuredAccepted(html) => tc = <<html.npTitle, html.npText>>

\* The unit of task i is done and its extractor went through the DOM
\* fallback without an exception.
FellBack(i) ==
    /\ Extracted(i)
    /\ FallbackRun(event[i].html)
    /\ ~event[i].html.bsRaises

\* The containers of the document whose text exceeds 200 characters.
LongContainers(html) ==
    {k \in DOMAIN html.containers :
        TextLen(html.containers[k]) > MinArticleLen}

\* The first of them in the order of the selector list.
FirstLong(html) ==
    CHOOSE k \in LongContainers(html) : \A j \in LongContainers(html) : k <= j

\* C23: in the DOM fallback the content is the text of the first container,
\* in selector order, whose text exceeds 200 characters; if no container's
\* text exceeds 200 characters, a text of exactly 200 included, the content
\* is the text of the document body.
C23_ContainerOrBody ==
    \A i \in Tasks :
        FellBack(i) =>
            LET html == event[i].html
                content == ExtractArticleContent(html)[2]
            IN  /\ LongContainers(html) # {} =>
                      content = html.containers[FirstLong(html)]
                /\ (LongContainers(html) = {} /\ html.hasBody) =>
                      content = html.body

\* C23, with the boundary left out: the first container longer than 200
\* characters is taken, and the body is taken when there are containers and
\* the text of each is shorter than 200 characters.
C23_ContainerOrBodyBelow ==
    \A i \in Tasks :
        FellBack(i) =>
            LET html == event[i].html
                content == ExtractArticleContent(html)[2]
            IN  /\ LongContainers(html) # {} =>
                      content = html.containers[FirstLong(html)]
                /\ ( /\ html.containers # <<>>
                     /\ \A k \in DOMAIN html.containers :
                           TextLen(html.containers[k]) < MinArticleLen
                     /\ html.hasBody ) =>
                      content = html.body

\* C24: the cleaning pass bounds the length: the cleaned text of whatever
\* the extractor returned has at most 50000 characters, and so has the
\* content of every page of the returned list.
C24_LengthBound ==
    /\ \A i \in Tasks :
          Extracted(i) =>
              TextLen(CleanContent(ExtractArticleContent(event[i].html)[2]))
                  <= MaxContentLen
    /\ Returned => \A n \in DOMAIN pages : TextLen(pages[n].content) <= MaxContentLen

\* C24 witness: the run returned a successful page of exactly 50000
\* characters for a document whose article text has 60003.
C24_Witness ==
    /\ Returned
    /\ \E n \in DOMAIN pages :
          /\ pages[n].success
          /\ event[n].html.npText = TextLong
          /\ TextLen(pages[n].content) = MaxContentLen

\* C25: a run with max_concurrent <= 0 and at least one candidate ends by
\* raising to the caller; until then no fetch starts, and the run never
\* returns a list of pages.
C25_InvalidConfigRaises ==
    /\ (mainpc = "extracted" /\ max_concurrent <= 0 /\ urls # <<>>) ~>
          (mainpc = "raised")
    /\ []((max_concurrent <= 0 /\ urls # <<>>) =>
            (startOrder = <<>> /\ pages = <<>> /\ mainpc # "returned"))

\* C25, for a negative max_concurrent only: the run ends by raising, no
\* task is created and no fetch starts.
C25_NegativeRaises ==
    /\ (mainpc = "extracted" /\ max_concurrent < 0 /\ urls # <<>>) ~>
          (mainpc = "raised")
    /\ []((max_concurrent < 0 /\ urls # <<>>) =>
            (pc = <<>> /\ startOrder = <<>> /\ pages = <<>>
             /\ mainpc # "returned"))

\* A run with max_concurrent = 0 and a candidate creates its tasks, every
\* one of which waits at the gate, and stays there: nothing is raised and
\* nothing is returned.
C25_ZeroHangs ==
    [](( /\ max_concurrent = 0
         /\ mainpc = "gathering" ) =>
       []( /\ mainpc = "gathering"
           /\ startOrder = <<>> ))

\* C26: every page of the returned list with success = false has a
\* non-empty error_message and an empty content, whatever produced it.
C26_FailuresAsData ==
    Returned =>
        \A n \in DOMAIN pages :
            ~pages[n].success =>
                /\ pages[n].error_message # ""
                /\ pages[n].content = <<>>

\* C26, but for the exceptions whose text is empty: every failed page has
\* an empty content, and an error_message that is empty only if it is the
\* text of the exception the unit raised.
C26_FailuresAsDataButEmptyText ==
    Returned =>
        \A n \in DOMAIN pages :
            ~pages[n].success =>
                /\ pages[n].content = <<>>
                /\ pages[n].error_message = "" =>
                      /\ RaisedInUnit(event[n]).raised
                      /\ RaisedInUnit(event[n]).exc.text = ""
                      /\ RaisedInUnit(event[n]).exc.type # "TimeoutError"

\* _scrape_all_urls has created the gate: it is not called for an empty
\* candidate list.
GateExists == mainpc \in {"gathering", "returned"} /\ urls # <<>>

\* The slots that are out of the gate: held by a unit inside "async with
\* semaphore", or handed to a woken waiter that has not resumed yet.
HeldSlots == Cardinality(InFlight) + Len(woken)

\* C27: every unit gives its slot back on every exit path: the slots out of
\* the gate and the free ones always add up to N, the number of held slots
\* is between 0 and N, and when _scrape_all_urls returns no slot is held,
\* no unit is inside the gate and nobody waits for it.
C27_NoPermitLeak ==
    GateExists =>
        /\ sem_value + HeldSlots = max_concurrent
        /\ HeldSlots \in 0..max_concurrent
        /\ sem_value \in 0..max_concurrent
        /\ Returned =>
              /\ HeldSlots = 0
              /\ sem_value = max_concurrent
              /\ waiters = <<>>

\* C27 witness: a run of MaxUrls candidates through a gate of one slot has
\* returned; a unit ended with a timeout, one with an empty body or too
\* little content, one with a page, and the slot is back in the gate.
C27_Witness ==
    /\ Returned
    /\ max_concurrent = 1
    /\ Len(urls) = MaxUrls
    /\ sem_value = 1
    /\ \E n \in DOMAIN pages : event[n].kind = "raise"
    /\ \E n \in DOMAIN pages :
          event[n].kind = "response" /\ ~pages[n].success
    /\ \E n \in DOMAIN pages : pages[n].success

\* The endpoint has answered.
Responded == response # NoResponse

\* The number of entries of results with crawl_success = true.
CrawlSuccesses(results) ==
    Cardinality({n \in DOMAIN results : results[n].crawl_success})

\* C28: results has one entry per scraped page in the order of the pages,
\* with source_link the URL of the page, total_links_found is the number of
\* entries, the keywords, entities and related news of a successful entry
\* are those computed from the content of that same page, and
\* total_links_processed is the number of entries with crawl_success = true.
C28_ResponseAligned ==
    Responded =>
        LET results == response.results
        IN  /\ Len(results) = Len(pages)
            /\ response.total_links_found = Len(results)
            /\ response.total_links_processed = CrawlSuccesses(results)
            /\ \A n \in DOMAIN results :
                  /\ results[n].source_link = pages[n].url
                  /\ results[n].crawl_success =>
                        LET cleaned == ContentCleanerClean(pages[n].content)
                            found == KeywordExtractorExtract(cleaned)
                        IN  /\ pages[n].success
                            /\ results[n].page_title = pages[n].title
                            /\ results[n].keywords = found.keywords
                            /\ results[n].entities = found.entities
                            /\ results[n].related_news =
                                  GetRecommendations(found.keywords)

\* C28 witness: the endpoint answered a run of MaxUrls pages in which a
\* failed page and a page without content precede a scraped article.
C28_Witness ==
    /\ Responded
    /\ Len(pages) = MaxUrls
    /\ ~pages[1].success
    /\ pages[2].success /\ pages[2].content = <<>>
    /\ response.results[MaxUrls].crawl_success
    /\ response.total_links_processed = MaxUrls - 2

\* u and v parse to the same netloc and the same path, letter case and
\* trailing slashes of the path apart.
SameNetlocAndPath(u, v) ==
    LET p == UrlParse(u)
        q == UrlParse(v)
    IN  /\ ~p.raises
        /\ ~q.raises
        /\ StrLower(p.netloc) = StrLower(q.netloc)
        /\ RStripChars(StrLower(p.path), {"/"}) =
              RStripChars(StrLower(q.path), {"/"})

\* u and v differ in scheme, query or fragment.
DifferInSchemeQueryFragment(u, v) ==
    LET p == UrlParse(u)
        q == UrlParse(v)
    IN  \/ p.scheme # q.scheme
        \/ p.query # q.query
        \/ p.fragment # q.fragment

\* C29: of two raw URLs with the same netloc and path (case-insensitively,
\* trailing slashes ignored) that differ in scheme, query or fragment, at
\* most one is a candidate, and no two URLs with the same netloc and path
\* are fetched in a run.
C29_KeyIgnoresSchemeQueryFragment ==
    /\ JustFiltered =>
          \A k, l \in DOMAIN rawOrder :
              /\ k < l
              /\ SameNetlocAndPath(Cleaned(k), Cleaned(l))
              /\ DifferInSchemeQueryFragment(Cleaned(k), Cleaned(l))
              => Cardinality({n \in DOMAIN urls :
                                 urls[n] \in {Cleaned(k), Cleaned(l)}}) <= 1
    /\ \A i, j \in DOMAIN fetchStarts :
          /\ i # j
          /\ fetchStarts[i] > 0
          /\ fetchStarts[j] > 0
          => ~SameNetlocAndPath(urls[i], urls[j])

\* C29 witness: of https://x.com/a?q=1, http://x.com/a#f and http://x.com/a,
\* met in this order, the first alone was a candidate and was fetched.
C29_Witness ==
    /\ Returned
    /\ rawOrder = <<UrlAQuery, UrlAFragment, UrlA>>
    /\ urls = <<UrlAQuery>>
    /\ fetchStarts = <<1>>

\* s neither starts nor ends with whitespace.
NoSurroundingWhitespace(s) ==
    s # <<>> => s[1] \notin Whitespace /\ s[Len(s)] \notin Whitespace

\* s does not end with a character of the punctuation set.
NoTrailingPunctuation(s) ==
    s # <<>> => s[Len(s)] \notin TrailingPunctuation

\* C30: for every raw URL u, _clean_url(_clean_url(u)) = _clean_url(u), and
\* _clean_url(u) has no leading or trailing whitespace and does not end
\* with a character of the punctuation set; so for every candidate.
C30_CleanUrlIdempotentAndComplete ==
    JustFiltered =>
        /\ \A k \in DOMAIN rawOrder :
              /\ CleanUrl(Cleaned(k)) = Cleaned(k)
              /\ NoSurroundingWhitespace(Cleaned(k))
              /\ NoTrailingPunctuation(Cleaned(k))
        /\ \A n \in DOMAIN urls :
              /\ CleanUrl(urls[n]) = urls[n]
              /\ NoSurroundingWhitespace(urls[n])

\* The part of C30 that the code keeps: a cleaned URL has no leading
\* whitespace and no trailing punctuation, and cleaning changes nothing of
\* a URL that has neither whitespace nor punctuation at its end.
C30_NoLeadingWhitespaceNoTrailingPunctuation ==
    JustFiltered =>
        \A k \in DOMAIN rawOrder :
            /\ NoTrailingPunctuation(Cleaned(k))
            /\ Cleaned(k) # <<>> => Cleaned(k)[1] \notin Whitespace
            /\ NoSurroundingWhitespace(Cleaned(k)) =>
                  CleanUrl(Cleaned(k)) = Cleaned(k)

\* The case of C30: 'http://x.com/a .' was cleaned to 'http://x.com/a ',
\* with the blank at its end, and fetched as a candidate.
C30_TrailingBlankFetched ==
    /\ Returned
    /\ rawOrder = <<UrlASpaceDot>>
    /\ urls = <<SubSeq(UrlASpaceDot, 1, Len(UrlASpaceDot) - 1)>>
    /\ fetchStarts = <<1>>

=============================================================================
